---- MODULE Spec2Model ----
(***************************************************************************)
(* Photo grouping and asynchronous batch analysis of isala404/lens-cleaner. *)
(*                                                                         *)
(*   src/main.py                      photo table, clustering, request     *)
(*                                    builder, batch job ledger, result    *)
(*                                    reconciliation (one synchronous      *)
(*                                    handler per operation)               *)
(*   src/backend/main.py              paid job ledger, start_processing    *)
(*                                    and the background task              *)
(*   src/backend/gemini_processor.py  request builder, poll loop, parser   *)
(*                                                                         *)
(* The subsystems are checked under separate specifications that share     *)
(* the variables below; a specification leaves the other subsystems'       *)
(* variables at their idle value.                                          *)
(***************************************************************************)
EXTENDS Integers, Sequences, FiniteSets, TLC

VARIABLES
    photos,        \* main.py table photos: id -> row
    formed         \* the (group_id, similar_photos) UPDATEs of the clustering pass that
                   \* produced this state; <<>> when the last operation was not a pass

\* Reconciliation of one downloaded result file against the photo table.
VARIABLES
    rc_payload,    \* the lines of the result file (file_content.splitlines())
    rc_before,     \* the photo table before the first reconciliation
    rc_after1,     \* the photo table after the first reconciliation
    rc_pass        \* how many times the file has been reconciled

\* main.py batch job ledger, its files on disk, and the external service.
VARIABLES
    batch_jobs,    \* table batch_jobs: batch id -> row
    next_batch,    \* how many batch ids (uuid4) have been handed out
    request_files, \* batch ids whose batch_requests_<id>.jsonl is on disk
    result_files,  \* batch ids whose batch_results_<id>.jsonl is on disk
    ext_jobs,      \* the external service's batch jobs: handle -> [state, payload]
    last_call      \* the last request served by a batch endpoint: the handler,
                   \* its batch_id (0 when it has none), per job what became of
                   \* the calls to the service made for it, and the HTTP status
                   \* of the response

\* backend/main.py: one paid job, the requests being served for it and the
\* background tasks started for it.
VARIABLES
    job,           \* the row of table jobs: status, payment_verified, completed_at,
                   \* results_json (<<>>: NULL, else <<results>>),
                   \* charged_photo_count
    upload_dir,    \* TRUE while the job's upload directory holds files
    requests,      \* request slot -> the handler the slot is serving and where it is
    tasks          \* task id -> background task (process_job_with_gemini) and where it is

\* The two request builders applied to one list of photos.
VARIABLES
    bd_rows,       \* the photos handed to the builders, in creation_time order
    bd_main,       \* what main.py create_batch_jsonl_for_groups returned
    bd_backend     \* what GeminiProcessor._create_batch_jsonl wrote

\* What reconciliation has suggested, for the claims that tell the service's
\* suggestions from the caller's own markings.
VARIABLES
    ai_suggested   \* ids of the photos an applied deletions entry named and whose
                   \* suggestion the caller has not rejected since

\* group_similar_photos(threshold) applied to one photo table with each
\* threshold of the model.
VARIABLES
    ps_order,      \* the order SELECT ... ORDER BY creation_time returns the table in
    ps_runs        \* threshold -> what the pass with that threshold did

clusterVars == <<photos, formed>>

passVars == <<ps_order, ps_runs>>

reviewVars == <<ai_suggested>>

backendVars == <<job, upload_dir, requests, tasks>>

builderVars == <<bd_rows, bd_main, bd_backend>>

reconcileVars == <<rc_payload, rc_before, rc_after1, rc_pass>>

ledgerVars == <<batch_jobs, next_batch, request_files, result_files, ext_jobs,
                last_call>>

vars == <<photos, formed, rc_payload, rc_before, rc_after1, rc_pass,
          batch_jobs, next_batch, request_files, result_files, ext_jobs,
          job, upload_dir, requests, tasks, bd_rows, bd_main, bd_backend,
          ps_order, ps_runs, last_call, ai_suggested>>

(***************************************************************************)
(* Bounds of the model.                                                    *)
(***************************************************************************)
MaxPhotos == 4

\* Longest result file, in lines.
MaxLines == 2

\* Reconciliations of the same file.
MaxPasses == 2

\* Requests served at the same time for the job of backend/main.py.
MaxRequests == 2

\* Background tasks started for the job of backend/main.py.
MaxTasks == 2

RequestSlots == 1..MaxRequests

TaskIds == 1..MaxTasks

\* backend/main.py: no row in table jobs.
NoBackendJob ==
    [status |-> "absent", payment_verified |-> FALSE, completed_at |-> FALSE,
     results_json |-> <<>>, charged_photo_count |-> 0]

IdleRequest == [op |-> "none", pc |-> "idle"]

NoTask == [pc |-> "none", batch_job |-> 0, observed |-> "none", results |-> 0]

\* A builder that has not run.
NotBuilt == [built |-> FALSE, requests_data |-> <<>>]

\* Batch jobs created (POST /create-batch-jsonl).
MaxJobs == 2

\* Jobs created at the external service (batches.create).
MaxExtJobs == 2

BatchIds == 1..MaxJobs

ExtHandles == 1..MaxExtJobs

PhotoIds == 1..MaxPhotos

(***************************************************************************)
(* Timestamps.  creation_time is a TEXT column: rows are ordered by the    *)
(* string, the window test uses the parsed datetime.  A timestamp of the   *)
(* model is an index into a catalogue of concrete strings listed in        *)
(* lexicographic order, so the index is the string's sort rank.            *)
(*   1  "2024-01-01T10:00:00Z"                                             *)
(*   2  "2024-01-01T11:00:00Z"   exactly 3600 s after 1                    *)
(*   3  "2024-01-01T11:00:01Z"   3601 s after 1                            *)
(*   4  "2024-01-01T12:00:00+02:00"   the instant of 1, written with an    *)
(*                                    offset                               *)
(*   5  "not-a-date"             datetime.fromisoformat raises ValueError  *)
(***************************************************************************)
TimeStrings == {1, 2, 3}

\* dateTaken is any string (PhotoIngest.dateTaken: str).
AllTimeStrings == {1, 2, 3, 4, 5}

ParsedSeconds(ts) ==
    CASE ts = 1 -> 36000
      [] ts = 2 -> 39600
      [] ts = 3 -> 39601
      [] ts = 4 -> 36000
      [] OTHER -> 0

Parseable(ts) == ts \in {1, 2, 3, 4}

(***************************************************************************)
(* Images and their embeddings.  The embedding is a function of the image  *)
(* (the DINOv2 pipeline is deterministic), and a photo id names one        *)
(* picture: it is ingested, and re-ingested, with the same image.  Two     *)
(* components are enough to place pairs below, at and above a threshold:   *)
(*   cos(1,2) = 3/5   cos(2,3) = 4/5   cos(1,3) = 0                        *)
(*   cos(1,4) = 4/5   cos(2,4) = 24/25 cos(3,4) = 3/5   cos(1,5) = 1       *)
(***************************************************************************)
ImageOf(id) == ((id - 1) % 5) + 1

Embedding(img) ==
    CASE img = 1 -> <<1, 0>>
      [] img = 2 -> <<3, 4>>
      [] img = 3 -> <<0, 1>>
      [] img = 4 -> <<4, 3>>
      [] img = 5 -> <<1, 0>>
      [] OTHER -> <<0, 0>>

Dot(a, b) == a[1] * b[1] + a[2] * b[2]

\* A threshold is a rational <<p, q>> with 0 <= p <= q, q > 0.
Thresholds == {<<3, 5>>, <<4, 5>>}

DefaultThreshold == <<3, 5>>

\* cosine_similarity(a, b) >= threshold, in exact arithmetic:
\* dot/(|a||b|) >= p/q.  A zero norm gives nan, and nan >= threshold is False.
SimilarityAtLeast(a, b, thr) ==
    LET d  == Dot(a, b)
        na == Dot(a, a)
        nb == Dot(b, b)
    IN  /\ na * nb > 0
        /\ d >= 0
        /\ d * d * thr[2] * thr[2] >= thr[1] * thr[1] * na * nb

TimeWindow == 3600

(***************************************************************************)
(* The photo table.                                                        *)
(***************************************************************************)
NoPhoto ==
    [status |-> "absent", creation_time |-> 0, image |-> 0, embedding |-> 0,
     group_id |-> 0, ai_suggestion_reason |-> 0, is_marked_for_deletion |-> FALSE]

\* INSERT OR REPLACE of /ingest: a fresh row, every other column at its default.
IngestedRow(ts, img) ==
    [status |-> "ingested", creation_time |-> ts, image |-> img, embedding |-> 0,
     group_id |-> 0, ai_suggestion_reason |-> 0, is_marked_for_deletion |-> FALSE]

ingest_photo(id, ts) ==
    /\ photos' = [photos EXCEPT ![id] = IngestedRow(ts, ImageOf(id))]
    /\ formed' = <<>>
    /\ UNCHANGED <<reconcileVars, passVars, reviewVars, ledgerVars, backendVars, builderVars>>

\* Every row with embedding NULL and status 'ingested' gets its embedding.
calculate_embeddings ==
    /\ \E i \in PhotoIds : photos[i].status = "ingested"
    /\ photos' = [i \in PhotoIds |->
                    IF photos[i].status = "ingested" /\ photos[i].embedding = 0
                    THEN [photos[i] EXCEPT !.embedding = photos[i].image,
                                           !.status = "embedded"]
                    ELSE photos[i]]
    /\ formed' = <<>>
    /\ UNCHANGED <<reconcileVars, passVars, reviewVars, ledgerVars, backendVars, builderVars>>

(***************************************************************************)
(* group_similar_photos                                                    *)
(***************************************************************************)
\* The ids get_photos_with_embeddings returns.
EmbeddedIds(db) ==
    {i \in PhotoIds : db[i].embedding # 0 /\ db[i].status \in {"embedded", "grouped"}}

\* ORDER BY creation_time followed by a stable sort on the same key: ascending
\* by the string; the order among equal strings is whatever SQLite returns.
RECURSIVE OrdersOf(_, _)
OrdersOf(db, ids) ==
    IF ids = {}
    THEN {<<>>}
    ELSE LET first == {i \in ids : \A k \in ids :
                          db[i].creation_time <= db[k].creation_time}
         IN  UNION {{<<m>> \o o : o \in OrdersOf(db, ids \ {m})} : m \in first}

SortedOrders(db) == OrdersOf(db, EmbeddedIds(db))

Abs(x) == IF x < 0 THEN -x ELSE x

\* The inner loop without the processed_photos test on the candidate.
RECURSIVE ScanForwardNoSkip(_, _, _, _, _, _, _)
ScanForwardNoSkip(db, ord, seed, j, processed, similar, thr) ==
    IF j > Len(ord)
    THEN [ok |-> TRUE, processed |-> processed, similar |-> similar]
    ELSE
      LET p2 == ord[j]
          t1 == ParsedSeconds(db[seed].creation_time)
          t2 == ParsedSeconds(db[p2].creation_time)
      IN  IF ~Parseable(db[p2].creation_time)
          THEN [ok |-> FALSE, processed |-> processed, similar |-> similar]
          ELSE IF Abs(t2 - t1) > TimeWindow
          THEN IF t2 > t1
               THEN [ok |-> TRUE, processed |-> processed, similar |-> similar]
               ELSE ScanForwardNoSkip(db, ord, seed, j + 1, processed, similar, thr)
          ELSE IF SimilarityAtLeast(Embedding(db[seed].embedding),
                                    Embedding(db[p2].embedding), thr)
          THEN ScanForwardNoSkip(db, ord, seed, j + 1, processed \cup {p2},
                                 Append(similar, p2), thr)
          ELSE ScanForwardNoSkip(db, ord, seed, j + 1, processed, similar, thr)

\* The inner loop comparing a candidate with the member added last instead of
\* with the seed.
RECURSIVE ScanForwardChained(_, _, _, _, _, _, _)
ScanForwardChained(db, ord, seed, j, processed, similar, thr) ==
    IF j > Len(ord)
    THEN [ok |-> TRUE, processed |-> processed, similar |-> similar]
    ELSE
      LET p2 == ord[j]
          t1 == ParsedSeconds(db[seed].creation_time)
          t2 == ParsedSeconds(db[p2].creation_time)
      IN  IF p2 \in processed
          THEN ScanForwardChained(db, ord, seed, j + 1, processed, similar, thr)
          ELSE IF ~Parseable(db[p2].creation_time)
          THEN [ok |-> FALSE, processed |-> processed, similar |-> similar]
          ELSE IF Abs(t2 - t1) > TimeWindow
          THEN IF t2 > t1
               THEN [ok |-> TRUE, processed |-> processed, similar |-> similar]
               ELSE ScanForwardChained(db, ord, seed, j + 1, processed, similar, thr)
          ELSE IF SimilarityAtLeast(Embedding(db[similar[Len(similar)]].embedding),
                                    Embedding(db[p2].embedding), thr)
          THEN ScanForwardChained(db, ord, seed, j + 1, processed \cup {p2},
                                  Append(similar, p2), thr)
          ELSE ScanForwardChained(db, ord, seed, j + 1, processed, similar, thr)

\* The inner loop without the test of the time window.
RECURSIVE ScanForwardNoWindow(_, _, _, _, _, _, _)
ScanForwardNoWindow(db, ord, seed, j, processed, similar, thr) ==
    IF j > Len(ord)
    THEN [ok |-> TRUE, processed |-> processed, similar |-> similar]
    ELSE
      LET p2 == ord[j]
      IN  IF p2 \in processed
          THEN ScanForwardNoWindow(db, ord, seed, j + 1, processed, similar, thr)
          ELSE IF ~Parseable(db[p2].creation_time)
          THEN [ok |-> FALSE, processed |-> processed, similar |-> similar]
          ELSE IF SimilarityAtLeast(Embedding(db[seed].embedding),
                                    Embedding(db[p2].embedding), thr)
          THEN ScanForwardNoWindow(db, ord, seed, j + 1, processed \cup {p2},
                                   Append(similar, p2), thr)
          ELSE ScanForwardNoWindow(db, ord, seed, j + 1, processed, similar, thr)

\* The inner loop (for j, photo2 in enumerate(photos[i+1:], i+1)) from index j.
\* ok = FALSE: datetime.fromisoformat raised.
RECURSIVE ScanForward(_, _, _, _, _, _, _)
ScanForward(db, ord, seed, j, processed, similar, thr) ==
    IF j > Len(ord)
    THEN [ok |-> TRUE, processed |-> processed, similar |-> similar]
    ELSE
      LET p2 == ord[j]
          t1 == ParsedSeconds(db[seed].creation_time)
          t2 == ParsedSeconds(db[p2].creation_time)
      IN  IF p2 \in processed
          THEN ScanForward(db, ord, seed, j + 1, processed, similar, thr)
          ELSE IF ~Parseable(db[p2].creation_time)
          THEN [ok |-> FALSE, processed |-> processed, similar |-> similar]
          ELSE IF Abs(t2 - t1) > TimeWindow
          THEN IF t2 > t1
               THEN [ok |-> TRUE, processed |-> processed, similar |-> similar]
               ELSE ScanForward(db, ord, seed, j + 1, processed, similar, thr)
          ELSE IF SimilarityAtLeast(Embedding(db[seed].embedding),
                                    Embedding(db[p2].embedding), thr)
          THEN ScanForward(db, ord, seed, j + 1, processed \cup {p2},
                           Append(similar, p2), thr)
          ELSE ScanForward(db, ord, seed, j + 1, processed, similar, thr)

\* The outer loop (for i, photo1 in enumerate(photos)) from index i; groups is
\* the sequence of UPDATEs issued so far, counter is group_counter.
RECURSIVE ClusterFrom(_, _, _, _, _, _, _)
ClusterFrom(db, ord, i, processed, groups, counter, thr) ==
    IF i > Len(ord)
    THEN [ok |-> TRUE, groups |-> groups]
    ELSE
      LET p1 == ord[i]
      IN  IF p1 \in processed
          THEN ClusterFrom(db, ord, i + 1, processed, groups, counter, thr)
          ELSE IF ~Parseable(db[p1].creation_time)
          THEN [ok |-> FALSE, groups |-> groups]
          ELSE
            LET r == ScanForward(db, ord, p1, i + 1, processed \cup {p1}, <<p1>>, thr)
            IN  IF ~r.ok
                THEN [ok |-> FALSE, groups |-> groups]
                ELSE IF Len(r.similar) > 1
                THEN ClusterFrom(db, ord, i + 1, r.processed,
                                 Append(groups, [group_id |-> counter,
                                                 members |-> r.similar]),
                                 counter + 1, thr)
                ELSE ClusterFrom(db, ord, i + 1, r.processed, groups, counter, thr)

\* UPDATE photos SET group_id = NULL WHERE status = 'embedded'
ResetGroups(db) ==
    [i \in PhotoIds |->
        IF db[i].status = "embedded" THEN [db[i] EXCEPT !.group_id = 0] ELSE db[i]]

\* The UPDATE of a group without its WHERE id IN (...): every row of the table
\* gets the id of the first group.
ApplyGroupsToAll(db, groups, k) ==
    IF groups = <<>>
    THEN db
    ELSE [i \in PhotoIds |->
            IF db[i].status # "absent"
            THEN [db[i] EXCEPT !.group_id = groups[1].group_id]
            ELSE db[i]]

\* UPDATE photos SET group_id = ?, status = 'grouped' WHERE id IN (...), in the
\* order the UPDATEs were issued.
RECURSIVE ApplyGroups(_, _, _)
ApplyGroups(db, groups, k) ==
    IF k > Len(groups)
    THEN db
    ELSE
      LET g  == groups[k]
          ms == {g.members[x] : x \in 1..Len(g.members)}
      IN  ApplyGroups([i \in PhotoIds |->
                          IF i \in ms
                          THEN [db[i] EXCEPT !.group_id = g.group_id,
                                             !.status = "grouped"]
                          ELSE db[i]],
                      groups, k + 1)

\* One call of group_similar_photos(threshold).  Fewer than two embedded photos:
\* return at once.  An exception leaves the transaction uncommitted.
group_similar_photos(thr) ==
    /\ UNCHANGED <<reconcileVars, passVars, reviewVars, ledgerVars, backendVars, builderVars>>
    /\ IF Cardinality(EmbeddedIds(photos)) < 2
       THEN /\ formed' = <<>>
            /\ UNCHANGED photos
       ELSE \E ord \in SortedOrders(photos) :
              LET r == ClusterFrom(photos, ord, 1, {}, <<>>, 1, thr)
              IN  IF r.ok
                  THEN /\ photos' = ApplyGroups(ResetGroups(photos), r.groups, 1)
                       /\ formed' = r.groups
                  ELSE /\ formed' = <<>>
                       /\ UNCHANGED photos

\* POST /group-similar-photos calls group_similar_photos() with the default.
group_similar_photos_endpoint == group_similar_photos(DefaultThreshold)

(***************************************************************************)
(* SpecCluster: ingest, embed and cluster, from the empty table.           *)
(***************************************************************************)
BackendIdle ==
    /\ job = NoBackendJob
    /\ upload_dir = FALSE
    /\ requests = [r \in RequestSlots |-> IdleRequest]
    /\ tasks = [t \in TaskIds |-> NoTask]

NoRun == [ran |-> FALSE, ok |-> TRUE, groups |-> <<>>]

PassIdle ==
    /\ ps_order = <<>>
    /\ ps_runs = [thr \in Thresholds |-> NoRun]

\* No caller action yet: the photos that carry a reason are the suggested ones.
ReviewIdle ==
    ai_suggested = {i \in PhotoIds : photos[i].ai_suggestion_reason # 0}

BuilderIdle ==
    /\ bd_rows = <<>>
    /\ bd_main = NotBuilt
    /\ bd_backend = NotBuilt

ReconcileIdle ==
    /\ rc_payload = <<>>
    /\ rc_before = <<>>
    /\ rc_after1 = <<>>
    /\ rc_pass = 0

NoJob ==
    [status |-> "absent", job_name |-> 0, input_file_name |-> 0,
     output_file_name |-> 0, completed_at |-> FALSE, total_requests |-> 0,
     processed_requests |-> 0, error_message |-> 0]

NoExtJob == [state |-> "none", payload |-> <<>>]

\* Per job: "not_called" (the request made no call to the service for it),
\* "ok", or the call that raised: "upload", "create", "get", "download",
\* "cancel".
NoCalls == [b \in BatchIds |-> "not_called"]

OneCall(batch_id, outcome) == [NoCalls EXCEPT ![batch_id] = outcome]

NoCall == [op |-> "none", batch_id |-> 0, calls |-> NoCalls, code |-> 0]

Call(op, batch_id, calls, code) ==
    [op |-> op, batch_id |-> batch_id, calls |-> calls, code |-> code]

LedgerIdle ==
    /\ batch_jobs = [b \in BatchIds |-> NoJob]
    /\ next_batch = 0
    /\ request_files = {}
    /\ result_files = {}
    /\ ext_jobs = [h \in ExtHandles |-> NoExtJob]
    /\ last_call = NoCall

ClusterInit ==
    /\ photos = [i \in PhotoIds |-> NoPhoto]
    /\ formed = <<>>
    /\ ReconcileIdle
    /\ LedgerIdle
    /\ PassIdle
    /\ ReviewIdle
    /\ BackendIdle
    /\ BuilderIdle

ClusterNext ==
    \/ \E id \in PhotoIds, ts \in TimeStrings : ingest_photo(id, ts)
    \/ calculate_embeddings
    \/ group_similar_photos_endpoint

SpecCluster == ClusterInit /\ [][ClusterNext]_vars

(***************************************************************************)
(* Clustering claims.                                                      *)
(***************************************************************************)
MembersOf(g) == {g.members[x] : x \in 1..Len(g.members)}

\* C1: after every clustering pass, whatever passes and ingests came before,
\* the groups the pass formed are pairwise disjoint, no group lists a photo
\* twice, and each member's stored group id is the id of the one group that
\* lists it.
C1_GroupsPartition ==
    /\ \A a \in 1..Len(formed) : \A b \in 1..Len(formed) :
           a # b => MembersOf(formed[a]) \cap MembersOf(formed[b]) = {}
    /\ \A a \in 1..Len(formed) :
           Cardinality(MembersOf(formed[a])) = Len(formed[a].members)
    /\ \A a \in 1..Len(formed) : \A m \in MembersOf(formed[a]) :
           photos[m].group_id = formed[a].group_id

\* A pass that formed two groups: the second one's members carry group id 2.
C1_Witness ==
    /\ Len(formed) = 2
    /\ \E i \in PhotoIds : photos[i].status = "grouped" /\ photos[i].group_id = 2

\* Every group id stored in the table is shared by at least two photos.
NoSingletonGroupIds ==
    \A i \in PhotoIds :
       photos[i].group_id # 0 =>
          \E k \in PhotoIds \ {i} : photos[k].group_id = photos[i].group_id

\* C16: in every state reached by a clustering pass, also one that follows
\* earlier passes and further ingests, every non-null group id is shared by
\* at least two photos, and the groups the pass formed carry distinct ids.
C16_NoSingletonGroups ==
    [][group_similar_photos_endpoint =>
          /\ NoSingletonGroupIds'
          /\ \A x, y \in 1..Len(formed') :
                x # y => formed'[x].group_id # formed'[y].group_id]_vars

\* C32: a clustering pass resets all previous group assignments: after any
\* pass, also one that follows earlier passes, ingests and threshold changes,
\* a photo has a non-null group id only if that pass placed it in one of the
\* groups it formed, under that group's id.
C32_PassResetsAssignments ==
    [][group_similar_photos_endpoint =>
          \A i \in PhotoIds :
             photos'[i].group_id # 0 =>
                \E k \in 1..Len(formed') :
                   /\ formed'[k].group_id = photos'[i].group_id
                   /\ i \in MembersOf(formed'[k])]_vars

\* C18: a photo without an embedding is ignored by clustering: it never
\* carries a group id and it is a member of no group a pass formed.
C18_NoEmbeddingNoGroup ==
    \A i \in PhotoIds :
       photos[i].embedding = 0 =>
          /\ photos[i].group_id = 0
          /\ \A k \in 1..Len(formed) : i \notin MembersOf(formed[k])

\* A pass that formed a group while a photo without an embedding, taken at
\* the same time as the group's members, was in the table.
C18_Witness ==
    /\ formed # <<>>
    /\ \E i \in PhotoIds :
          /\ photos[i].status = "ingested"
          /\ photos[i].embedding = 0
          /\ \E m \in MembersOf(formed[1]) :
                photos[m].creation_time = photos[i].creation_time

(***************************************************************************)
(* SpecPass: group_similar_photos(threshold) as a function of the table.   *)
(* Any table of up to MaxPhotos embedded photos with any timestamps of the *)
(* catalogue (every such table is reached by ingest and                    *)
(* calculate_embeddings), clustered once with each threshold of            *)
(* Thresholds, the rows being returned in the same order each time.        *)
(***************************************************************************)
EmbeddedRow(ts, img) ==
    [IngestedRow(ts, img) EXCEPT !.embedding = img, !.status = "embedded"]

\* What one call does with the rows in order ord: the UPDATEs it issues, and
\* ok = FALSE when an exception ends it.
PassResult(db, ord, thr) ==
    IF Cardinality(EmbeddedIds(db)) < 2
    THEN [ok |-> TRUE, groups |-> <<>>]
    ELSE ClusterFrom(db, ord, 1, {}, <<>>, 1, thr)

PassInit ==
    /\ \E present \in SUBSET PhotoIds :
       \E ts \in [present -> AllTimeStrings] :
          photos = [i \in PhotoIds |->
                      IF i \in present THEN EmbeddedRow(ts[i], ImageOf(i))
                      ELSE NoPhoto]
    /\ formed = <<>>
    /\ ps_order \in SortedOrders(photos)
    /\ ps_runs = [thr \in Thresholds |-> NoRun]
    /\ ReconcileIdle
    /\ ReviewIdle
    /\ LedgerIdle
    /\ BackendIdle
    /\ BuilderIdle

group_similar_photos_with(thr) ==
    /\ ~ps_runs[thr].ran
    /\ LET r == PassResult(photos, ps_order, thr)
       IN  /\ ps_runs' = [ps_runs EXCEPT ![thr] =
                             [ran |-> TRUE, ok |-> r.ok, groups |-> r.groups]]
           /\ formed' = IF r.ok THEN r.groups ELSE <<>>
           /\ photos' = IF r.ok /\ Cardinality(EmbeddedIds(photos)) >= 2
                        THEN ApplyGroups(ResetGroups(photos), r.groups, 1)
                        ELSE photos
    /\ UNCHANGED <<ps_order, reconcileVars, reviewVars, ledgerVars, backendVars,
                   builderVars>>

PassNext == \E thr \in Thresholds : group_similar_photos_with(thr)

SpecPass == PassInit /\ [][PassNext]_vars

(***************************************************************************)
(* Claims about one clustering pass.                                       *)
(***************************************************************************)
SeqToSet(q) == {q[x] : x \in 1..Len(q)}

\* The photos clustered together with photo i by the pass recorded as run:
\* its group, or i alone when the pass left it without a group.
GroupOfPhoto(run, i) ==
    IF \E k \in 1..Len(run.groups) : i \in SeqToSet(run.groups[k].members)
    THEN SeqToSet(run.groups[CHOOSE k \in 1..Len(run.groups) :
                                 i \in SeqToSet(run.groups[k].members)].members)
    ELSE {i}

LowThreshold == <<3, 5>>

HighThreshold == <<4, 5>>

\* C12: raising the threshold never makes a group larger: no photo is in a
\* larger group after the pass with the higher threshold than after the pass
\* with the lower one on the same table.
C12_ThresholdMonotone ==
    (ps_runs[LowThreshold].ran /\ ps_runs[HighThreshold].ran
        /\ ps_runs[LowThreshold].ok /\ ps_runs[HighThreshold].ok) =>
       \A i \in EmbeddedIds(photos) :
          Cardinality(GroupOfPhoto(ps_runs[HighThreshold], i))
             <= Cardinality(GroupOfPhoto(ps_runs[LowThreshold], i))

TimeOf(i) == ParsedSeconds(photos[i].creation_time)

Similar(i, k, thr) ==
    SimilarityAtLeast(Embedding(photos[i].embedding), Embedding(photos[k].embedding), thr)

\* C13: every member of a group formed by a pass lies within TimeWindow of
\* the group's seed, its first member; and the boundary is inclusive: a
\* photo exactly TimeWindow after the first seed of the pass and similar to
\* it is in that seed's group.
C13_WithinWindowOfSeed ==
    \A thr \in Thresholds :
       (ps_runs[thr].ran /\ ps_runs[thr].ok) =>
          /\ \A k \in 1..Len(ps_runs[thr].groups) :
                \A m \in SeqToSet(ps_runs[thr].groups[k].members) :
                   Abs(TimeOf(m) - TimeOf(ps_runs[thr].groups[k].members[1]))
                      <= TimeWindow
          /\ \A b \in EmbeddedIds(photos) :
                ( /\ Len(ps_order) >= 2
                  /\ TimeOf(b) - TimeOf(ps_order[1]) = TimeWindow
                  /\ Similar(ps_order[1], b, thr) )
                => b \in GroupOfPhoto(ps_runs[thr], ps_order[1])

\* A pass that formed a group with a member exactly TimeWindow after its
\* seed, while a photo one second further away was left out.
C13_Witness ==
    \E thr \in Thresholds :
       /\ ps_runs[thr].ran /\ ps_runs[thr].ok
       /\ \E k \in 1..Len(ps_runs[thr].groups) :
             LET g == ps_runs[thr].groups[k]
             IN  /\ \E m \in SeqToSet(g.members) :
                       TimeOf(m) - TimeOf(g.members[1]) = TimeWindow
                 /\ \E x \in EmbeddedIds(photos) \ SeqToSet(g.members) :
                       /\ TimeOf(x) - TimeOf(g.members[1]) = TimeWindow + 1
                       /\ Similar(g.members[1], x, thr)

\* C14: clustering is seed-anchored: every other member of a group formed by
\* a pass has similarity >= threshold to the group's seed, its first member
\* (whatever its similarity to the other members is).
C14_SeedAnchored ==
    \A thr \in Thresholds :
       (ps_runs[thr].ran /\ ps_runs[thr].ok) =>
          \A k \in 1..Len(ps_runs[thr].groups) :
             \A x \in 2..Len(ps_runs[thr].groups[k].members) :
                Similar(ps_runs[thr].groups[k].members[1],
                        ps_runs[thr].groups[k].members[x], thr)

\* A group with two members that are not similar to each other, and a photo
\* left out of it that is similar to a member but not to the seed.
C14_Witness ==
    \E thr \in Thresholds :
       /\ ps_runs[thr].ran /\ ps_runs[thr].ok
       /\ \E k \in 1..Len(ps_runs[thr].groups) :
             LET g == ps_runs[thr].groups[k]
             IN  /\ \E x, y \in 2..Len(g.members) :
                       ~Similar(g.members[x], g.members[y], thr)
                 /\ \E o \in EmbeddedIds(photos) \ SeqToSet(g.members) :
                       /\ TimeOf(o) = TimeOf(g.members[1])
                       /\ ~Similar(g.members[1], o, thr)
                       /\ \E x \in 2..Len(g.members) : Similar(g.members[x], o, thr)

\* C15: the forward scan is complete: every photo that follows the first
\* seed of a pass (none is assigned yet), lies within TimeWindow of it and
\* has similarity >= threshold to it is placed in that seed's group.
C15_ForwardScanComplete ==
    \A thr \in Thresholds :
       (ps_runs[thr].ran /\ ps_runs[thr].ok /\ Len(ps_order) >= 2) =>
          \A b \in EmbeddedIds(photos) \ {ps_order[1]} :
             ( /\ Abs(TimeOf(b) - TimeOf(ps_order[1])) <= TimeWindow
               /\ Similar(ps_order[1], b, thr) )
             => b \in GroupOfPhoto(ps_runs[thr], ps_order[1])

\* The table without the photos whose creation_time does not parse.
WithoutUnparseable(db) ==
    [i \in PhotoIds |->
        IF db[i].status # "absent" /\ ~Parseable(db[i].creation_time)
        THEN NoPhoto
        ELSE db[i]]

\* C17: a photo whose timestamp does not parse is left out of clustering and
\* the pass goes on: it is not aborted, and it forms the groups that
\* clustering the other photos alone forms.
C17_MalformedTimestampSkipped ==
    \A thr \in Thresholds :
       ps_runs[thr].ran =>
          /\ ps_runs[thr].ok
          /\ ps_runs[thr].groups =
                PassResult(WithoutUnparseable(photos),
                           SelectSeq(ps_order,
                                     LAMBDA i : Parseable(photos[i].creation_time)),
                           thr).groups

(***************************************************************************)
(* Result reconciliation (check_batch_status, the SUCCEEDED branch).       *)
(*                                                                         *)
(* A result file is a sequence of lines.  A line of the model is a record  *)
(* [kind, deletions]:                                                      *)
(*   "ok"               a response whose candidates[0] has a finishReason  *)
(*                      other than MAX_TOKENS and whose parts[0].text is a *)
(*                      JSON object with the given "deletions"             *)
(*   "max_tokens"       the same, with finishReason "MAX_TOKENS"           *)
(*   "no_finish_reason" the same, without the finishReason key             *)
(*   "bad_json"         a line json.loads rejects                          *)
(*   "no_response"      a JSON object without "response" (an error record) *)
(*   "empty_candidates" {"response": {"candidates": []}}                   *)
(*   "empty"            an empty line                                      *)
(* A deletions entry is [id, reason]; 0 stands for a missing key.          *)
(***************************************************************************)
Reasons == {1, 2}

Entry(i, r) == [id |-> i, reason |-> r]

Line(k, d) == [kind |-> k, deletions |-> d]

ResultLines ==
    { Line("ok", <<Entry(1, 1)>>),
      Line("ok", <<Entry(2, 2), Entry(1, 2)>>),
      Line("ok", <<Entry(1, 2), Entry(0, 1), Entry(2, 1)>>),
      Line("ok", <<Entry(3, 1), Entry(2, 1)>>),
      Line("max_tokens", <<Entry(2, 1)>>),
      Line("no_finish_reason", <<Entry(2, 2)>>),
      Line("bad_json", <<>>),
      Line("empty_candidates", <<>>) }

RECURSIVE SeqsUpTo(_, _)
SeqsUpTo(S, n) ==
    IF n = 0
    THEN {<<>>}
    ELSE LET shorter == SeqsUpTo(S, n - 1)
         IN  shorter \cup {Append(q, x) : q \in shorter, x \in S}

\* UPDATE photos SET ai_suggestion_reason = ?, is_marked_for_deletion = NOT
\* is_marked_for_deletion WHERE id = ?  (a toggle instead of TRUE).
\* The UPDATE reaching the row after the one the entry names.
SuggestDeletionShifted(db, e) ==
    [i \in PhotoIds |->
        IF i = (e.id % MaxPhotos) + 1 /\ db[i].status # "absent"
        THEN [db[i] EXCEPT !.ai_suggestion_reason = e.reason,
                           !.is_marked_for_deletion = TRUE]
        ELSE db[i]]

SuggestDeletionToggle(db, e) ==
    [i \in PhotoIds |->
        IF i = e.id /\ db[i].status # "absent"
        THEN [db[i] EXCEPT !.ai_suggestion_reason = e.reason,
                           !.is_marked_for_deletion = ~db[i].is_marked_for_deletion]
        ELSE db[i]]

\* UPDATE photos SET ai_suggestion_reason = ?, is_marked_for_deletion = TRUE
\* WHERE id = ?
SuggestDeletion(db, e) ==
    [i \in PhotoIds |->
        IF i = e.id /\ db[i].status # "absent"
        THEN [db[i] EXCEPT !.ai_suggestion_reason = e.reason,
                           !.is_marked_for_deletion = TRUE]
        ELSE db[i]]

\* for deletion in deletions: ...  from entry k on.  deletion["reason"] or
\* deletion["id"] of a missing key raises KeyError, which ends the record.
RECURSIVE ApplyDeletions(_, _, _, _)
ApplyDeletions(db, dels, k, count) ==
    IF k > Len(dels)
    THEN [db |-> db, count |-> count]
    ELSE IF dels[k].reason = 0 \/ dels[k].id = 0
    THEN [db |-> db, count |-> count]
    ELSE ApplyDeletions(SuggestDeletion(db, dels[k]), dels, k + 1, count + 1)

\* What the body of the loop does with one line:
\*   "apply"  the deletions are applied,
\*   "skip"   nothing is applied (continue, a false if, or the inner except),
\*   "raise"  an exception the inner except does not catch (IndexError).
LineTreatmentNoTruncationTest(line) ==
    CASE line.kind = "empty" -> "skip"
      [] line.kind = "bad_json" -> "skip"
      [] line.kind = "no_response" -> "skip"
      [] line.kind = "empty_candidates" -> "raise"
      [] line.kind = "no_finish_reason" -> "skip"
      [] line.kind = "max_tokens" -> "apply"
      [] OTHER -> "apply"

LineTreatment(line) ==
    CASE line.kind = "empty" -> "skip"
      [] line.kind = "bad_json" -> "skip"
      [] line.kind = "no_response" -> "skip"
      [] line.kind = "empty_candidates" -> "raise"
      [] line.kind = "no_finish_reason" -> "skip"
      [] line.kind = "max_tokens" -> "skip"
      [] OTHER -> "apply"

\* for line in file_content.splitlines(): ...  from line k on.  raised = TRUE:
\* the exception left the loop (the per-job except of check_batch_status
\* catches it; the lines after k are not read).
RECURSIVE ReconcileFrom(_, _, _, _)
ReconcileFrom(db, lines, k, count) ==
    IF k > Len(lines)
    THEN [db |-> db, count |-> count, raised |-> FALSE]
    ELSE
      LET t == LineTreatment(lines[k])
      IN  IF t = "raise"
          THEN [db |-> db, count |-> count, raised |-> TRUE]
          ELSE IF t = "skip"
          THEN ReconcileFrom(db, lines, k + 1, count)
          ELSE LET r == ApplyDeletions(db, lines[k].deletions, 1, count)
               IN  ReconcileFrom(r.db, lines, k + 1, r.count)

Reconcile(db, lines) == ReconcileFrom(db, lines, 1, 0)

(***************************************************************************)
(* SpecReconcile: any result file of up to MaxLines lines against any      *)
(* suggestion state of two grouped photos, reconciled up to MaxPasses      *)
(* times (a status check of a succeeded job downloads and applies the      *)
(* file again).                                                            *)
(***************************************************************************)
GroupedRow(ts, img, g, reason, marked) ==
    [status |-> "grouped", creation_time |-> ts, image |-> img, embedding |-> img,
     group_id |-> g, ai_suggestion_reason |-> reason, is_marked_for_deletion |-> marked]

\* Photos 1 and 2 clustered into group 1 (ingest, embed, one pass), with any
\* suggestion fields mark, unmark, review and earlier reconciliations leave.
ReconcileInit ==
    /\ \E r1, r2 \in Reasons \cup {0}, m1, m2 \in BOOLEAN :
          photos = [i \in PhotoIds |->
                      IF i = 1 THEN GroupedRow(1, ImageOf(1), 1, r1, m1)
                      ELSE IF i = 2 THEN GroupedRow(1, ImageOf(2), 1, r2, m2)
                      ELSE NoPhoto]
    /\ formed = <<>>
    /\ rc_payload \in SeqsUpTo(ResultLines, MaxLines)
    /\ rc_before = photos
    /\ rc_after1 = photos
    /\ rc_pass = 0
    /\ LedgerIdle
    /\ PassIdle
    /\ ReviewIdle
    /\ BackendIdle
    /\ BuilderIdle

\* The same table with no suggestion on any row: what the statements of a
\* reconciliation write to it is what that reconciliation suggested.
Cleared(db) ==
    [i \in PhotoIds |->
        [db[i] EXCEPT !.ai_suggestion_reason = 0, !.is_marked_for_deletion = FALSE]]

SuggestedIds(db) == {i \in PhotoIds : db[i].is_marked_for_deletion}

reconcile_results ==
    /\ rc_pass < MaxPasses
    /\ photos' = Reconcile(photos, rc_payload).db
    /\ ai_suggested' = ai_suggested
                           \cup SuggestedIds(Reconcile(Cleared(photos), rc_payload).db)
    /\ rc_after1' = IF rc_pass = 0 THEN photos' ELSE rc_after1
    /\ rc_pass' = rc_pass + 1
    /\ UNCHANGED <<formed, rc_payload, rc_before, passVars, ledgerVars, backendVars, builderVars>>

ReconcileNext == reconcile_results

SpecReconcile == ReconcileInit /\ [][ReconcileNext]_vars

(***************************************************************************)
(* Reconciliation claims.                                                  *)
(***************************************************************************)
SuggestionFields(db) ==
    [i \in PhotoIds |-> <<db[i].ai_suggestion_reason, db[i].is_marked_for_deletion>>]

\* C5: reconciling the same result file a second time leaves every photo's
\* suggestion reason and deletion-marked flag as the first reconciliation
\* left them.
C5_ReconcileIdempotent ==
    rc_pass >= 2 => SuggestionFields(photos) = SuggestionFields(rc_after1)

\* A second reconciliation of a file whose first reconciliation changed a
\* photo's suggestion fields.
C5_Witness ==
    /\ rc_pass = 2
    /\ SuggestionFields(rc_after1) # SuggestionFields(rc_before)
    /\ \E k \in 1..Len(rc_payload) : rc_payload[k].kind = "ok"

RECURSIVE WithoutKind(_, _)
WithoutKind(lines, kind) ==
    IF lines = <<>>
    THEN <<>>
    ELSE IF Head(lines).kind = kind
    THEN WithoutKind(Tail(lines), kind)
    ELSE <<Head(lines)>> \o WithoutKind(Tail(lines), kind)

\* C6: a MAX_TOKENS record contributes no suggestion and the other records
\* are processed as if it were absent: the table after reconciliation is the
\* table reconciliation of the file without its MAX_TOKENS lines gives.
C6_TruncatedRecordIgnored ==
    rc_pass >= 1 =>
        SuggestionFields(rc_after1) =
            SuggestionFields(Reconcile(rc_before, WithoutKind(rc_payload, "max_tokens")).db)

\* A reconciled file with a MAX_TOKENS record naming photo 2 beside a sibling
\* record that was applied, photo 2 left unmarked.
C6_Witness ==
    /\ rc_pass >= 1
    /\ \E k \in 1..Len(rc_payload) : rc_payload[k].kind = "max_tokens"
    /\ \E k \in 1..Len(rc_payload) : rc_payload[k] = Line("ok", <<Entry(1, 1)>>)
    /\ ~rc_before[2].is_marked_for_deletion
    /\ ~photos[2].is_marked_for_deletion
    /\ photos[1].is_marked_for_deletion

\* A record the loop is meant to apply in full: it parses and every entry of
\* its deletions list has an id and a reason.
WellFormed(line) ==
    /\ line.kind = "ok"
    /\ \A k \in 1..Len(line.deletions) :
          line.deletions[k].id # 0 /\ line.deletions[k].reason # 0

\* C7: partial-failure isolation: whatever other records the file holds,
\* every photo named by a well-formed record of the file is marked after the
\* reconciliation (no bad record keeps a later record from being processed).
C7_BadRecordDoesNotAbort ==
    rc_pass >= 1 =>
        \A k \in 1..Len(rc_payload) :
            WellFormed(rc_payload[k]) =>
                \A x \in 1..Len(rc_payload[k].deletions) :
                    LET id == rc_payload[k].deletions[x].id
                    IN  photos[id].status # "absent" => photos[id].is_marked_for_deletion

\* The deletions entries of a file, in the order the loop meets them.
RECURSIVE AllEntries(_)
AllEntries(lines) ==
    IF lines = <<>> THEN <<>> ELSE Head(lines).deletions \o AllEntries(Tail(lines))

\* The last entry of es that names photo i (0 when none does).
LastNaming(es, i) ==
    IF \E x \in 1..Len(es) : es[x].id = i
    THEN CHOOSE x \in 1..Len(es) :
            es[x].id = i /\ \A y \in (x + 1)..Len(es) : es[y].id # i
    ELSE 0

\* C20: suggestions are applied by photo id: a photo whose fields a
\* reconciliation changed is named by an entry of the file and carries that
\* entry's reason and the mark; when every record of the file is well-formed
\* each photo an entry names carries the mark and the reason of the last
\* entry naming it; a photo no entry names keeps both fields; no other
\* column and no absent row changes (an entry naming an unknown id changes
\* nothing).
C20_AppliedByPhotoId ==
    rc_pass >= 1 =>
       LET es == AllEntries(rc_payload)
       IN  \A i \in PhotoIds :
              /\ [rc_after1[i] EXCEPT
                     !.ai_suggestion_reason = rc_before[i].ai_suggestion_reason,
                     !.is_marked_for_deletion = rc_before[i].is_marked_for_deletion]
                    = rc_before[i]
              /\ SuggestionFields(rc_after1)[i] # SuggestionFields(rc_before)[i] =>
                    /\ rc_after1[i].is_marked_for_deletion
                    /\ \E x \in 1..Len(es) :
                          /\ es[x].id = i
                          /\ es[x].reason = rc_after1[i].ai_suggestion_reason
              /\ ( /\ \A k \in 1..Len(rc_payload) : WellFormed(rc_payload[k])
                   /\ LastNaming(es, i) # 0
                   /\ rc_before[i].status # "absent" ) =>
                    /\ rc_after1[i].is_marked_for_deletion
                    /\ rc_after1[i].ai_suggestion_reason = es[LastNaming(es, i)].reason

\* A reconciled record whose first entry names an unknown id and whose second
\* entry names photo 2: photo 2 is marked with the entry's reason, photo 1
\* and the absent row 3 are as before.
C20_Witness ==
    /\ rc_pass >= 1
    /\ rc_payload = <<Line("ok", <<Entry(3, 1), Entry(2, 1)>>)>>
    /\ rc_before[3] = NoPhoto
    /\ rc_after1[3] = NoPhoto
    /\ ~rc_before[2].is_marked_for_deletion
    /\ rc_after1[2].is_marked_for_deletion
    /\ rc_after1[2].ai_suggestion_reason = 1
    /\ rc_after1[1] = rc_before[1]
    /\ rc_before[1].ai_suggestion_reason = 2

(***************************************************************************)
(* Request builders.  A photo handed to a builder is                       *)
(* [id, group_id, date, has_file] (group_id 0: NULL or no such key); a     *)
(* request record is [key, photo_ids, named_count]: the photos whose tag   *)
(* and payload the record holds, and the count its closing instruction     *)
(* names.                                                                  *)
(***************************************************************************)
MAX_PHOTOS_PER_GROUP == 100

GroupKey(kind, value) == [kind |-> kind, value |-> value]

\* main.py: photo["group_id"] if photo["group_id"] else f"date_{date_group}"
MainKey(row) ==
    IF row.group_id # 0
    THEN GroupKey("group", row.group_id)
    ELSE GroupKey("date", row.date)

\* gemini_processor.py: photo.get("group_id", "ungrouped")
BackendKey(row) ==
    IF row.group_id # 0
    THEN GroupKey("group", row.group_id)
    ELSE GroupKey("ungrouped", 0)

\* for photo in photos: photo_groups[group_key].append(photo).  A dict keeps
\* its keys in the order of their first insertion, and a group's list keeps
\* the order of the input; keys[k] is the group key of rows[k].
FirstOccurrences(keys) ==
    {k \in 1..Len(keys) : \A j \in 1..(k - 1) : keys[j] # keys[k]}

GroupRows(rows, keys) ==
    LET first == FirstOccurrences(keys)
        keyed == [x \in 1..Len(rows) |-> [row |-> rows[x], key |-> keys[x]]]
        MembersWith(key) ==
            LET sel == SelectSeq(keyed, LAMBDA e : e.key = key)
            IN  [x \in 1..Len(sel) |-> sel[x].row]
    IN  [g \in 1..Cardinality(first) |->
            LET k == CHOOSE c \in first : Cardinality({j \in first : j <= c}) = g
            IN  [key |-> keys[k], members |-> MembersWith(keys[k])]]

RowIds(rows) == [x \in 1..Len(rows) |-> rows[x].id]

\* main.py create_batch_jsonl_for_groups: one request per group of two or more.
RECURSIVE MainRequestsFrom(_, _)
MainRequestsFrom(groups, k) ==
    IF k > Len(groups)
    THEN <<>>
    ELSE IF Len(groups[k].members) <= 1
    THEN MainRequestsFrom(groups, k + 1)
    ELSE <<[key |-> groups[k].key,
            photo_ids |-> RowIds(groups[k].members),
            named_count |-> Len(groups[k].members)]>>
         \o MainRequestsFrom(groups, k + 1)

MainRequests(rows) ==
    MainRequestsFrom(
        GroupRows(rows, [x \in 1..Len(rows) |-> MainKey(rows[x])]), 1)

\* gemini_processor.py _create_batch_jsonl: groups of one and groups of more
\* than MAX_PHOTOS_PER_GROUP are skipped; a photo whose file is missing is
\* left out of the record, and the closing instruction names len(group_photos).
WithFile(rows) == SelectSeq(rows, LAMBDA row : row.has_file)

RECURSIVE BackendRequestsFrom(_, _)
BackendRequestsFrom(groups, k) ==
    IF k > Len(groups)
    THEN <<>>
    ELSE IF Len(groups[k].members) <= 1
    THEN BackendRequestsFrom(groups, k + 1)
    ELSE IF Len(groups[k].members) > MAX_PHOTOS_PER_GROUP
    THEN BackendRequestsFrom(groups, k + 1)
    ELSE <<[key |-> groups[k].key,
            photo_ids |-> RowIds(WithFile(groups[k].members)),
            named_count |-> Len(groups[k].members)]>>
         \o BackendRequestsFrom(groups, k + 1)

BackendRequests(rows) ==
    BackendRequestsFrom(
        GroupRows(rows, [x \in 1..Len(rows) |-> BackendKey(rows[x])]), 1)

\* DATE(creation_time): every string of the catalogue is of 2024-01-01.
DateOf(ts) == 1

\* The rows create_batch_jsonl_for_groups selects: status embedded or grouped,
\* ORDER BY creation_time; the image is a column of the row.
BatchableIds(db) == {i \in PhotoIds : db[i].status \in {"embedded", "grouped"}}

TableRows(db, ord) ==
    [x \in 1..Len(ord) |->
        [id |-> ord[x],
         group_id |-> db[ord[x]].group_id,
         date |-> DateOf(db[ord[x]].creation_time),
         has_file |-> TRUE]]

(***************************************************************************)
(* SpecBuilder: both builders applied to lists holding up to MaxGroups     *)
(* similarity groups, each of a size of GroupSizes, and up to MaxUngrouped *)
(* photos without a group.                                                 *)
(***************************************************************************)
MaxGroups == 2

MaxUngrouped == 2

GroupSizes == {0, 1, 2, MAX_PHOTOS_PER_GROUP, MAX_PHOTOS_PER_GROUP + 1}

\* n photos of group g with ids from first on; the file of the first one is
\* missing when missing is TRUE.
GroupOf(g, first, n, missing) ==
    [x \in 1..n |-> [id |-> first + x - 1, group_id |-> g, date |-> 1,
                     has_file |-> ~(missing /\ x = 1)]]

RECURSIVE PhotoLists(_)
PhotoLists(g) ==
    IF g = 0
    THEN {<<>>}
    ELSE { rows \o GroupOf(g, Len(rows) + 1, n, m) :
              rows \in PhotoLists(g - 1), n \in GroupSizes, m \in BOOLEAN }

BuilderInit ==
    /\ \E rows \in PhotoLists(MaxGroups), u \in 0..MaxUngrouped :
          bd_rows = rows \o GroupOf(0, Len(rows) + 1, u, FALSE)
    /\ bd_main = NotBuilt
    /\ bd_backend = NotBuilt
    /\ photos = [i \in PhotoIds |-> NoPhoto]
    /\ formed = <<>>
    /\ ReconcileIdle
    /\ LedgerIdle
    /\ PassIdle
    /\ ReviewIdle
    /\ BackendIdle

create_batch_jsonl_for_groups ==
    /\ ~bd_main.built
    /\ bd_main' = [built |-> TRUE, requests_data |-> MainRequests(bd_rows)]
    /\ UNCHANGED <<bd_rows, bd_backend, clusterVars, reconcileVars, passVars, reviewVars, ledgerVars,
                   backendVars>>

_create_batch_jsonl ==
    /\ ~bd_backend.built
    /\ bd_backend' = [built |-> TRUE, requests_data |-> BackendRequests(bd_rows)]
    /\ UNCHANGED <<bd_rows, bd_main, clusterVars, reconcileVars, passVars, reviewVars, ledgerVars,
                   backendVars>>

BuilderNext == create_batch_jsonl_for_groups \/ _create_batch_jsonl

SpecBuilder == BuilderInit /\ [][BuilderNext]_vars

\* The photos of bd_rows whose similarity group holds more than
\* MAX_PHOTOS_PER_GROUP photos.
OversizedIds ==
    { bd_rows[x].id : x \in
        { y \in 1..Len(bd_rows) :
            /\ bd_rows[y].group_id # 0
            /\ Cardinality({z \in 1..Len(bd_rows) :
                              bd_rows[z].group_id = bd_rows[y].group_id})
                  > MAX_PHOTOS_PER_GROUP } }

RequestedIds(out) ==
    UNION { { out.requests_data[x].photo_ids[y] :
                y \in 1..Len(out.requests_data[x].photo_ids) } :
            x \in 1..Len(out.requests_data) }

\* C10: a group of more than the configured maximum of photos is excluded
\* from the batch: no request record of either builder holds a photo of it.
C10_OversizedGroupExcluded ==
    /\ RequestedIds(bd_main) \cap OversizedIds = {}
    /\ RequestedIds(bd_backend) \cap OversizedIds = {}

\* The photos of bd_rows clustering left without a group id.
UngroupedIds ==
    { bd_rows[x].id : x \in {y \in 1..Len(bd_rows) : bd_rows[y].group_id = 0} }

\* C11: a photo without a group id appears in no request record of either
\* builder.
C11_UngroupedNeverBatched ==
    /\ RequestedIds(bd_main) \cap UngroupedIds = {}
    /\ RequestedIds(bd_backend) \cap UngroupedIds = {}

\* The ids of the photos of bd_rows that a builder files under the key.
MemberIds(Key(_), key) ==
    RowIds(SelectSeq(bd_rows, LAMBDA row : Key(row) = key))

\* C28: every request record of either builder holds the tag and the payload
\* of each member photo of its group, in the group's order, and the count its
\* closing instruction names is the number of payloads in the record, which
\* is at least 2.
C28_RecordHoldsEveryMember ==
    /\ \A x \in 1..Len(bd_main.requests_data) :
          LET rec == bd_main.requests_data[x]
          IN  /\ rec.photo_ids = MemberIds(MainKey, rec.key)
              /\ rec.named_count = Len(rec.photo_ids)
              /\ Len(rec.photo_ids) >= 2
    /\ \A x \in 1..Len(bd_backend.requests_data) :
          LET rec == bd_backend.requests_data[x]
          IN  /\ rec.photo_ids = MemberIds(BackendKey, rec.key)
              /\ rec.named_count = Len(rec.photo_ids)
              /\ Len(rec.photo_ids) >= 2

\* The keys, in the order of their first photo in bd_rows, of the groups a
\* builder forms that hold at least 2 and at most MAX_PHOTOS_PER_GROUP photos.
EligibleKeys(Key(_)) ==
    LET keys == [x \in 1..Len(bd_rows) |-> Key(bd_rows[x])]
        firsts == SelectSeq([x \in 1..Len(bd_rows) |-> x],
                            LAMBDA x : x \in FirstOccurrences(keys))
        sized == SelectSeq(firsts,
                           LAMBDA x : /\ Len(MemberIds(Key, keys[x])) >= 2
                                      /\ Len(MemberIds(Key, keys[x]))
                                            <= MAX_PHOTOS_PER_GROUP)
    IN  [x \in 1..Len(sized) |-> keys[sized[x]]]

RecordKeys(out) ==
    [x \in 1..Len(out.requests_data) |-> out.requests_data[x].key]

\* C29: the records a builder returns are, in order, one per group of at
\* least 2 and at most MAX_PHOTOS_PER_GROUP photos, in the order the groups
\* are first met, and a record holds photos of its own group only.
C29_OneRecordPerEligibleGroup ==
    /\ bd_main.built =>
          /\ RecordKeys(bd_main) = EligibleKeys(MainKey)
          /\ \A x \in 1..Len(bd_main.requests_data) :
                SeqToSet(bd_main.requests_data[x].photo_ids)
                   \subseteq SeqToSet(MemberIds(MainKey, bd_main.requests_data[x].key))
    /\ bd_backend.built =>
          /\ RecordKeys(bd_backend) = EligibleKeys(BackendKey)
          /\ \A x \in 1..Len(bd_backend.requests_data) :
                SeqToSet(bd_backend.requests_data[x].photo_ids)
                   \subseteq SeqToSet(MemberIds(BackendKey, bd_backend.requests_data[x].key))

(***************************************************************************)
(* The external service (Gemini batch API).                                *)
(***************************************************************************)
ExtStates ==
    {"JOB_STATE_PENDING", "JOB_STATE_RUNNING", "JOB_STATE_SUCCEEDED",
     "JOB_STATE_FAILED", "JOB_STATE_CANCELLED", "JOB_STATE_EXPIRED"}

ExtTerminal ==
    {"JOB_STATE_SUCCEEDED", "JOB_STATE_FAILED", "JOB_STATE_CANCELLED",
     "JOB_STATE_EXPIRED"}

\* The result files the service may produce for the one request of the model;
\* a response may suggest several photos of its group.
ResultFiles ==
    { <<Line("ok", <<Entry(1, 1)>>)>>,
      <<Line("empty_candidates", <<>>), Line("ok", <<Entry(2, 2)>>)>>,
      <<Line("ok", <<Entry(1, 1), Entry(2, 2)>>)>> }

\* A job of the service moves PENDING -> RUNNING -> SUCCEEDED | FAILED, may be
\* cancelled or expire while it is not finished, and never leaves a terminal
\* state.
ext_progress(h) ==
    /\ ext_jobs[h].state \in {"JOB_STATE_PENDING", "JOB_STATE_RUNNING"}
    /\ \/ /\ ext_jobs[h].state = "JOB_STATE_PENDING"
          /\ ext_jobs' = [ext_jobs EXCEPT ![h].state = "JOB_STATE_RUNNING"]
       \/ /\ ext_jobs[h].state = "JOB_STATE_RUNNING"
          /\ \E f \in ResultFiles :
                ext_jobs' = [ext_jobs EXCEPT ![h] =
                                [state |-> "JOB_STATE_SUCCEEDED", payload |-> f]]
       \/ /\ ext_jobs[h].state = "JOB_STATE_RUNNING"
          /\ ext_jobs' = [ext_jobs EXCEPT ![h].state = "JOB_STATE_FAILED"]
       \/ \E st \in {"JOB_STATE_CANCELLED", "JOB_STATE_EXPIRED"} :
             ext_jobs' = [ext_jobs EXCEPT ![h].state = st]
    /\ UNCHANGED <<photos, formed, reconcileVars, passVars, reviewVars, backendVars, builderVars, batch_jobs, next_batch,
                   request_files, result_files, last_call>>

(***************************************************************************)
(* The batch job ledger of main.py.  Every handler is synchronous code in  *)
(* an async def without an await: it runs to its end before another        *)
(* request is served, so a handler is one action.                          *)
(***************************************************************************)
\* POST /create-batch-jsonl.  No request record: HTTPException, nothing stored.
create_batch_jsonl ==
    /\ next_batch < MaxJobs
    /\ \E ord \in OrdersOf(photos, BatchableIds(photos)) :
          LET requests_data == MainRequests(TableRows(photos, ord))
              batch_id == next_batch + 1
          IN  /\ requests_data # <<>>
              /\ next_batch' = batch_id
              /\ request_files' = request_files \cup {batch_id}
              /\ batch_jobs' = [batch_jobs EXCEPT ![batch_id] =
                                   [NoJob EXCEPT !.status = "created",
                                                 !.total_requests = Len(requests_data)]]
              /\ last_call' = Call("create_batch_jsonl", batch_id, NoCalls, 200)
    /\ UNCHANGED <<photos, formed, reconcileVars, passVars, reviewVars, backendVars, builderVars, result_files, ext_jobs>>

\* An upload that writes the row before it calls the service.
upload_batch_jsonl_update_first(batch_id, upload_ok) ==
    /\ batch_id \in request_files
    /\ batch_jobs' = [batch_jobs EXCEPT ![batch_id] =
                         IF @.status = "absent" THEN @
                         ELSE [@ EXCEPT !.input_file_name = batch_id,
                                        !.status = "uploaded"]]
    /\ last_call' = Call("upload_batch_jsonl", batch_id,
                         OneCall(batch_id, IF upload_ok THEN "ok" ELSE "upload"),
                         IF upload_ok THEN 200 ELSE 500)
    /\ UNCHANGED <<photos, formed, reconcileVars, passVars, reviewVars, backendVars, builderVars, next_batch, request_files,
                   result_files, ext_jobs>>

\* POST /upload-batch-jsonl.  The only test on the job is that its request
\* file exists.  upload_ok = FALSE: files.upload raises, which is answered with
\* HTTP 500 before the UPDATE.
upload_batch_jsonl(batch_id, upload_ok) ==
    /\ batch_id \in request_files
    /\ IF upload_ok
       THEN /\ batch_jobs' = [batch_jobs EXCEPT ![batch_id] =
                                 IF @.status = "absent" THEN @
                                 ELSE [@ EXCEPT !.input_file_name = batch_id,
                                                !.status = "uploaded"]]
            /\ last_call' = Call("upload_batch_jsonl", batch_id,
                                 OneCall(batch_id, "ok"), 200)
       ELSE /\ UNCHANGED batch_jobs
            /\ last_call' = Call("upload_batch_jsonl", batch_id,
                                 OneCall(batch_id, "upload"), 500)
    /\ UNCHANGED <<photos, formed, reconcileVars, passVars, reviewVars, backendVars, builderVars, next_batch, request_files,
                   result_files, ext_jobs>>

\* A job start that takes the row whatever its status (WHERE id = ?).
start_batch_processing_any_status(batch_id, h, create_ok) ==
    /\ batch_jobs[batch_id].status # "absent"
    /\ create_ok
    /\ ext_jobs[h].state = "none"
    /\ \A g \in ExtHandles : g < h => ext_jobs[g].state # "none"
    /\ ext_jobs' = [ext_jobs EXCEPT ![h] =
                       [state |-> "JOB_STATE_PENDING", payload |-> <<>>]]
    /\ batch_jobs' = [batch_jobs EXCEPT ![batch_id].job_name = h,
                                        ![batch_id].status = "running"]
    /\ last_call' = Call("start_batch_processing", batch_id,
                         OneCall(batch_id, "ok"), 200)
    /\ UNCHANGED <<photos, formed, reconcileVars, passVars, reviewVars, backendVars, builderVars, next_batch, request_files,
                   result_files>>

\* POST /start-batch-processing.  SELECT ... WHERE id = ? AND status = 'uploaded'.
\* create_ok = FALSE: batches.create raises, which is answered with HTTP 500
\* before the UPDATE; otherwise h is the job the service created.
start_batch_processing(batch_id, h, create_ok) ==
    /\ batch_jobs[batch_id].status = "uploaded"
    /\ IF create_ok
       THEN /\ ext_jobs[h].state = "none"
            /\ \A g \in ExtHandles : g < h => ext_jobs[g].state # "none"
            /\ ext_jobs' = [ext_jobs EXCEPT ![h] =
                               [state |-> "JOB_STATE_PENDING", payload |-> <<>>]]
            /\ batch_jobs' = [batch_jobs EXCEPT ![batch_id].job_name = h,
                                                ![batch_id].status = "running"]
            /\ last_call' = Call("start_batch_processing", batch_id,
                                 OneCall(batch_id, "ok"), 200)
       ELSE /\ h = 1
            /\ UNCHANGED <<ext_jobs, batch_jobs>>
            /\ last_call' = Call("start_batch_processing", batch_id,
                                 OneCall(batch_id, "create"), 500)
    /\ UNCHANGED <<photos, formed, reconcileVars, passVars, reviewVars, backendVars, builderVars, next_batch, request_files,
                   result_files>>

\* status_mapping.get(batch_job.state.name, 'unknown')
StatusMapping(state) ==
    CASE state = "JOB_STATE_PENDING" -> "running"
      [] state = "JOB_STATE_RUNNING" -> "running"
      [] state = "JOB_STATE_SUCCEEDED" -> "completed"
      [] state = "JOB_STATE_FAILED" -> "failed"
      [] state = "JOB_STATE_CANCELLED" -> "cancelled"
      [] OTHER -> "unknown"

\* The body of "for job_row in jobs" for one job.  outcome is what the calls
\* to the service do for it: "ok", "get_fails" (batches.get raises) or
\* "download_fails" (files.download raises); batches.get raises for a row
\* without a job name.  Any exception is caught by the per-job except, and
\* what was written before it is committed with the rest.  call is "ok" or the
\* call that raised.
CheckJob(row, db, outcome) ==
    IF row.job_name = 0 \/ outcome = "get_fails"
    THEN [row |-> row, db |-> db, file |-> FALSE, call |-> "get"]
    ELSE
      LET state == ext_jobs[row.job_name].state
          new_status == StatusMapping(state)
          row1 == IF ~(row.status = "running" /\ new_status = "pending")
                  THEN [row EXCEPT !.status = new_status]
                  ELSE row
      IN  IF state = "JOB_STATE_SUCCEEDED"
          THEN LET row2 == [row1 EXCEPT !.output_file_name = row.job_name,
                                        !.completed_at = TRUE]
                   r == Reconcile(db, ext_jobs[row.job_name].payload)
               IN  IF outcome = "download_fails"
                   THEN [row |-> row2, db |-> db, file |-> FALSE,
                         call |-> "download"]
                   ELSE IF r.raised
                   THEN [row |-> row2, db |-> r.db, file |-> TRUE,
                         call |-> "ok"]
                   ELSE [row |-> [row2 EXCEPT !.processed_requests = r.count],
                         db |-> r.db, file |-> TRUE, call |-> "ok"]
          ELSE IF state = "JOB_STATE_FAILED"
          THEN [row |-> [row1 EXCEPT !.error_message = 1, !.completed_at = TRUE],
                db |-> db, file |-> FALSE, call |-> "ok"]
          ELSE [row |-> row1, db |-> db, file |-> FALSE, call |-> "ok"]

\* A loop over every batch id ever handed out, deleted or not.
RECURSIVE CheckJobsFromAllIds(_, _, _)
CheckJobsFromAllIds(b, st, outcomes) ==
    IF b = 0
    THEN st
    ELSE LET r == CheckJob(st.jobs[b], st.db, outcomes[b])
         IN  CheckJobsFromAllIds(b - 1,
                           [jobs |-> [st.jobs EXCEPT ![b] = r.row],
                            db |-> r.db,
                            files |-> IF r.file THEN st.files \cup {b} ELSE st.files,
                            calls |-> [st.calls EXCEPT ![b] = r.call]],
                           outcomes)

\* A loop without the per-job try: the first call that raises ends the pass.
RECURSIVE CheckJobsFromUntilError(_, _, _)
CheckJobsFromUntilError(b, st, outcomes) ==
    IF b = 0
    THEN st
    ELSE IF st.jobs[b].status = "absent"
    THEN CheckJobsFromUntilError(b - 1, st, outcomes)
    ELSE LET r == CheckJob(st.jobs[b], st.db, outcomes[b])
             st1 == [jobs |-> [st.jobs EXCEPT ![b] = r.row],
                     db |-> r.db,
                     files |-> IF r.file THEN st.files \cup {b} ELSE st.files,
                     calls |-> [st.calls EXCEPT ![b] = r.call]]
         IN  IF r.call # "ok" THEN st1
             ELSE CheckJobsFromUntilError(b - 1, st1, outcomes)

\* The loop over SELECT ... ORDER BY created_at DESC, from batch id b down.
\* st is [jobs, db, files, calls]: the two tables, the result files on disk
\* and, per job, how its iteration went.
RECURSIVE CheckJobsFrom(_, _, _)
CheckJobsFrom(b, st, outcomes) ==
    IF b = 0
    THEN st
    ELSE IF st.jobs[b].status = "absent"
    THEN CheckJobsFrom(b - 1, st, outcomes)
    ELSE LET r == CheckJob(st.jobs[b], st.db, outcomes[b])
         IN  CheckJobsFrom(b - 1,
                           [jobs |-> [st.jobs EXCEPT ![b] = r.row],
                            db |-> r.db,
                            files |-> IF r.file THEN st.files \cup {b} ELSE st.files,
                            calls |-> [st.calls EXCEPT ![b] = r.call]],
                           outcomes)

\* POST /check-batch-status
check_batch_status(outcomes) ==
    LET r == CheckJobsFrom(MaxJobs,
                           [jobs |-> batch_jobs, db |-> photos,
                            files |-> result_files, calls |-> NoCalls],
                           outcomes)
    IN  /\ batch_jobs' = r.jobs
        /\ photos' = r.db
        /\ result_files' = r.files
        /\ last_call' = Call("check_batch_status", 0, r.calls, 200)
        /\ ai_suggested' =
              ai_suggested
                 \cup SuggestedIds(CheckJobsFrom(MaxJobs,
                                                 [jobs |-> batch_jobs, db |-> Cleared(photos),
                                                  files |-> result_files, calls |-> NoCalls],
                                                 outcomes).db)
        /\ UNCHANGED <<formed, reconcileVars, passVars, backendVars, builderVars, next_batch, request_files, ext_jobs>>

\* A delete that gives up (HTTP 500) when batches.cancel raises.
delete_batch_job_cancel_first(batch_id, cancel_ok) ==
    /\ batch_jobs[batch_id].status # "absent"
    /\ LET row == batch_jobs[batch_id]
           attempted == /\ row.status \in {"running", "pending"}
                        /\ row.job_name # 0
       IN  IF attempted /\ ~cancel_ok
           THEN /\ last_call' = Call("delete_batch_job", batch_id,
                                     OneCall(batch_id, "cancel"), 500)
                /\ UNCHANGED <<ext_jobs, result_files, request_files, batch_jobs>>
           ELSE /\ ext_jobs' = IF attempted /\ ext_jobs[row.job_name].state \notin ExtTerminal
                               THEN [ext_jobs EXCEPT ![row.job_name].state = "JOB_STATE_CANCELLED"]
                               ELSE ext_jobs
                /\ last_call' = Call("delete_batch_job", batch_id,
                                     OneCall(batch_id,
                                             IF attempted THEN "ok" ELSE "not_called"),
                                     200)
                /\ result_files' = result_files \ {batch_id}
                /\ request_files' = request_files \ {batch_id}
                /\ batch_jobs' = [batch_jobs EXCEPT ![batch_id] = NoJob]
    /\ UNCHANGED <<photos, formed, reconcileVars, passVars, reviewVars, backendVars, builderVars, next_batch>>

\* DELETE /batch-jobs/{batch_id}.  batches.cancel is called for a running job
\* with a job name; cancel_ok = FALSE: it raises, which is caught and printed.
delete_batch_job(batch_id, cancel_ok) ==
    /\ batch_jobs[batch_id].status # "absent"
    /\ LET row == batch_jobs[batch_id]
           attempted == /\ row.status \in {"running", "pending"}
                        /\ row.job_name # 0
           cancels == /\ attempted
                      /\ cancel_ok
                      /\ ext_jobs[row.job_name].state \notin ExtTerminal
       IN  /\ ext_jobs' = IF cancels
                          THEN [ext_jobs EXCEPT ![row.job_name].state = "JOB_STATE_CANCELLED"]
                          ELSE ext_jobs
           /\ last_call' = Call("delete_batch_job", batch_id,
                                OneCall(batch_id,
                                        IF ~attempted THEN "not_called"
                                        ELSE IF cancel_ok THEN "ok" ELSE "cancel"),
                                200)
    /\ result_files' = result_files \ {batch_id}
    /\ request_files' = request_files \ {batch_id}
    /\ batch_jobs' = [batch_jobs EXCEPT ![batch_id] = NoJob]
    /\ UNCHANGED <<photos, formed, reconcileVars, passVars, reviewVars, backendVars, builderVars, next_batch>>

CallOutcomes == {"ok", "get_fails", "download_fails"}

\* Photos 1 and 2 clustered into group 1 (ingest, embed, one pass): the state
\* of the photo table when batch analysis starts.
Init ==
    /\ photos = [i \in PhotoIds |->
                    IF i \in {1, 2} THEN GroupedRow(1, ImageOf(i), 1, 0, FALSE)
                    ELSE NoPhoto]
    /\ formed = <<>>
    /\ ReconcileIdle
    /\ LedgerIdle
    /\ PassIdle
    /\ ReviewIdle
    /\ BackendIdle
    /\ BuilderIdle

Next ==
    \/ create_batch_jsonl
    \/ \E b \in BatchIds, ok \in BOOLEAN : upload_batch_jsonl(b, ok)
    \/ \E b \in BatchIds, h \in ExtHandles, ok \in BOOLEAN :
          start_batch_processing(b, h, ok)
    \/ \E o \in [BatchIds -> CallOutcomes] : check_batch_status(o)
    \/ \E b \in BatchIds, c \in BOOLEAN : delete_batch_job(b, c)
    \/ \E h \in ExtHandles : ext_progress(h)

Spec == Init /\ [][Next]_vars

(***************************************************************************)
(* Claims about the ledger of main.py.                                     *)
(***************************************************************************)
TerminalStatuses == {"completed", "failed", "cancelled"}

\* C2: under create / upload / start / status-check operations a job never
\* moves from running to created, and a job whose status is terminal
\* (completed, failed, cancelled) keeps that status in every later step.
\* (A step that deletes the row is not one of the four operations.)
C2_TerminalIsFinal ==
    [][\A b \in BatchIds :
          batch_jobs'[b].status # "absent" =>
             /\ batch_jobs[b].status = "running" =>
                   batch_jobs'[b].status # "created"
             /\ batch_jobs[b].status \in TerminalStatuses =>
                   batch_jobs'[b].status = batch_jobs[b].status]_vars

\* C3: a running job whose external job is reported in a non-terminal state
\* stays running over a status check, and no step takes a running job back to
\* created, uploaded or pending.
C3_RunningNeverRegresses ==
    [][\A b \in BatchIds :
          (batch_jobs[b].status = "running" /\ batch_jobs'[b].status # "absent") =>
             /\ batch_jobs'[b].status \notin {"created", "uploaded", "pending"}
             /\ ext_jobs[batch_jobs[b].job_name].state
                   \in {"JOB_STATE_PENDING", "JOB_STATE_RUNNING"}
                => batch_jobs'[b].status = "running"]_vars

\* C8: in every reachable state a job whose persisted status is completed
\* has had its result file fetched (the file is on disk, and reconciliation
\* reads the bytes that were written to it).
C8_CompletedHasResults ==
    \A b \in BatchIds :
        batch_jobs[b].status = "completed" => b \in result_files

\* C21: a job's status becomes running only from uploaded, and only with the
\* name of a job the service has created stored in its row; in every
\* reachable state a job whose status is running, completed, failed or
\* cancelled has a job name stored, and the service knows that job.
C21_RunningOnlyFromUploaded ==
    /\ [](\A b \in BatchIds :
             batch_jobs[b].status \in {"running"} \cup TerminalStatuses =>
                /\ batch_jobs[b].job_name # 0
                /\ ext_jobs[batch_jobs[b].job_name].state # "none")
    /\ [][\A b \in BatchIds :
             (batch_jobs'[b].status = "running" /\ batch_jobs[b].status # "running") =>
                /\ batch_jobs[b].status = "uploaded"
                /\ batch_jobs'[b].job_name # 0
                /\ ext_jobs'[batch_jobs'[b].job_name].state # "none"]_vars

\* A job that start_batch_processing has just taken from uploaded to running.
C21_Witness ==
    \E b \in BatchIds :
        /\ last_call = Call("start_batch_processing", b, OneCall(b, "ok"), 200)
        /\ batch_jobs[b].status = "running"
        /\ batch_jobs[b].job_name # 0
        /\ ext_jobs[batch_jobs[b].job_name].state = "JOB_STATE_PENDING"

\* C22: a request whose files.upload raised is answered with an error and
\* leaves the job's row as it was (a created job stays created with no file
\* name stored), and a request whose batches.create raised is answered with
\* an error and leaves the row and the service as they were (the job stays
\* uploaded, no job name is stored by the request); after either the tests
\* of the same handler still pass, so the step can be repeated.
C22_FailedCallLeavesJob ==
    [][\A b \in BatchIds :
          /\ (last_call' # last_call /\ last_call'.calls[b] = "upload") =>
                /\ last_call'.op = "upload_batch_jsonl"
                /\ last_call'.code = 500
                /\ batch_jobs'[b] = batch_jobs[b]
                /\ batch_jobs[b].status = "created" =>
                      /\ batch_jobs'[b].status = "created"
                      /\ batch_jobs'[b].input_file_name = 0
                /\ b \in request_files'
          /\ (last_call' # last_call /\ last_call'.calls[b] = "create") =>
                /\ last_call'.op = "start_batch_processing"
                /\ last_call'.code = 500
                /\ batch_jobs'[b] = batch_jobs[b]
                /\ ext_jobs' = ext_jobs
                /\ batch_jobs'[b].status = "uploaded"]_vars

\* A created job whose upload has just failed.
C22_Witness ==
    \E b \in BatchIds :
        /\ last_call = Call("upload_batch_jsonl", b, OneCall(b, "upload"), 500)
        /\ batch_jobs[b].status = "created"
        /\ batch_jobs[b].input_file_name = 0
        /\ b \in request_files

\* C23: a status check in which batches.get or files.download raised for a
\* job leaves that job's row (status, completed_at, output file name,
\* processed count, error message) and its result file as they were before
\* the check.
C23_FailedQueryLeavesJob ==
    [][\A b \in BatchIds :
          ( /\ last_call' # last_call
            /\ last_call'.op = "check_batch_status"
            /\ last_call'.calls[b] \in {"get", "download"} ) =>
             /\ batch_jobs'[b] = batch_jobs[b]
             /\ (b \in result_files') = (b \in result_files)]_vars

\* C24: when a delete of a job has been answered, the job's row, its request
\* file and its result file are gone, whatever became of batches.cancel
\* (not called, succeeded, raised), and the answer is a success.
C24_DeleteCleansUp ==
    last_call.op = "delete_batch_job" =>
       /\ last_call.code = 200
       /\ batch_jobs[last_call.batch_id] = NoJob
       /\ last_call.batch_id \notin request_files
       /\ last_call.batch_id \notin result_files

\* A delete whose batches.cancel raised: the row and the files are gone while
\* the job of the service, which no row names any more, is still in progress.
C24_Witness ==
    /\ last_call.op = "delete_batch_job"
    /\ last_call.calls[last_call.batch_id] = "cancel"
    /\ batch_jobs[last_call.batch_id] = NoJob
    /\ last_call.batch_id \notin request_files \cup result_files
    /\ \E h \in ExtHandles :
          /\ ext_jobs[h].state \in {"JOB_STATE_PENDING", "JOB_STATE_RUNNING"}
          /\ \A b \in BatchIds : batch_jobs[b].job_name # h

\* The job with batch id b was created and has been deleted.
Deleted(b) == b <= next_batch /\ batch_jobs[b].status = "absent"

\* C25: once a job is deleted, no later request calls the service for it (a
\* status check does not query it), and no later step writes a row or a
\* result file for it.
C25_DeleteStopsPolling ==
    [][\A b \in BatchIds :
          Deleted(b) =>
             /\ batch_jobs'[b] = NoJob
             /\ b \notin result_files'
             /\ last_call' # last_call => last_call'.calls[b] = "not_called"]_vars

\* A status check after job 1 was deleted while its job at the service was in
\* progress: job 2 is queried, job 1 is not, and job 1 has no row.
C25_Witness ==
    /\ Deleted(1)
    /\ last_call.op = "check_batch_status"
    /\ last_call.calls[1] = "not_called"
    /\ last_call.calls[2] = "ok"
    /\ \E h \in ExtHandles :
          /\ ext_jobs[h].state \in {"JOB_STATE_PENDING", "JOB_STATE_RUNNING"}
          /\ \A b \in BatchIds : batch_jobs[b].job_name # h

\* C27: a status check deals with every job of the table whatever happens
\* to the others: each job is queried; a job whose calls succeeded gets the
\* status its own job at the service maps to, a job whose batches.get raised
\* keeps its row; and a request about one job (upload, start, delete) writes
\* no other job's row.
C27_JobsIndependent ==
    [][last_call' # last_call =>
          /\ last_call'.op = "check_batch_status" =>
                \A b \in BatchIds :
                   batch_jobs[b].status # "absent" =>
                      /\ last_call'.calls[b] # "not_called"
                      /\ last_call'.calls[b] = "get" => batch_jobs'[b] = batch_jobs[b]
                      /\ last_call'.calls[b] # "get" =>
                            batch_jobs'[b].status =
                               StatusMapping(ext_jobs[batch_jobs[b].job_name].state)
          /\ last_call'.op \in {"upload_batch_jsonl", "start_batch_processing",
                                "delete_batch_job"} =>
                \A b \in BatchIds \ {last_call'.batch_id} :
                   batch_jobs'[b] = batch_jobs[b]]_vars

\* A status check in which batches.get raised for job 2, which is checked
\* first, and job 1 was then queried and is completed with its result file.
C27_Witness ==
    /\ last_call.op = "check_batch_status"
    /\ last_call.calls[2] = "get"
    /\ batch_jobs[2].job_name # 0
    /\ last_call.calls[1] = "ok"
    /\ batch_jobs[1].status = "completed"
    /\ 1 \in result_files

\* C30: in every reachable state the status of every job of the table is one
\* of created, uploaded, running, completed, failed, cancelled.
C30_StatusInLifecycle ==
    \A b \in BatchIds :
        batch_jobs[b].status # "absent" =>
           batch_jobs[b].status \in {"created", "uploaded", "running",
                                     "completed", "failed", "cancelled"}

(***************************************************************************)
(* SpecFrame: the operations of main.py that are not meant to write a      *)
(* photo's suggestion fields (ingest, embedding, clustering, request       *)
(* building, upload, job start), from a table in which reconciliation has  *)
(* left suggestions.                                                       *)
(***************************************************************************)
\* The photo ids ingested under SpecFrame.
MaxFrameIds == 2

\* Photos 1 and 2 clustered into group 1; a reconciled result file suggested
\* photo 1, and photo 2 or not.
FrameInit ==
    /\ \E r2 \in {0, 2} :
          photos = [i \in PhotoIds |->
                      IF i = 1 THEN GroupedRow(1, ImageOf(1), 1, 1, TRUE)
                      ELSE IF i = 2 THEN GroupedRow(1, ImageOf(2), 1, r2, r2 # 0)
                      ELSE NoPhoto]
    /\ formed = <<>>
    /\ ReconcileIdle
    /\ LedgerIdle
    /\ PassIdle
    /\ ReviewIdle
    /\ BackendIdle
    /\ BuilderIdle

FrameNext ==
    \/ \E id \in 1..MaxFrameIds, ts \in TimeStrings : ingest_photo(id, ts)
    \/ calculate_embeddings
    \/ group_similar_photos_endpoint
    \/ create_batch_jsonl
    \/ \E b \in BatchIds, ok \in BOOLEAN : upload_batch_jsonl(b, ok)
    \/ \E b \in BatchIds, h \in ExtHandles, ok \in BOOLEAN :
          start_batch_processing(b, h, ok)

SpecFrame == FrameInit /\ [][FrameNext]_vars

\* C19: ingest (also of an id the table already holds), embedding
\* calculation, clustering, request building, upload and job start leave
\* the suggestion reason and the deletion mark of every photo as they are.
C19_SuggestionFieldsFramed ==
    [][SuggestionFields(photos') = SuggestionFields(photos)]_vars

(***************************************************************************)
(* SpecReview: the caller's marking and review handlers of main.py, with   *)
(* status checks of one started job.  Like the ledger handlers these are   *)
(* async defs without an await: one action each.                           *)
(***************************************************************************)
\* Form(default="User marked"): the reason a caller's own mark stores.
UserMarked == 3

HasRow(id) == photos[id].status # "absent"

GroupHasRows(group_id) == \E i \in PhotoIds : HasRow(i) /\ photos[i].group_id = group_id

\* POST /photos/{photo_id}/mark-deletion.  rowcount 0: HTTP 404.
mark_photo_for_deletion(photo_id, reason) ==
    /\ HasRow(photo_id)
    /\ photos' = [photos EXCEPT ![photo_id].is_marked_for_deletion = TRUE,
                                ![photo_id].ai_suggestion_reason = reason]
    /\ UNCHANGED <<formed, reconcileVars, passVars, reviewVars, ledgerVars, backendVars,
                   builderVars>>

\* POST /photos/{photo_id}/unmark-deletion.  rowcount 0: HTTP 404.
unmark_photo_for_deletion(photo_id) ==
    /\ HasRow(photo_id)
    /\ photos' = [photos EXCEPT ![photo_id].is_marked_for_deletion = FALSE]
    /\ UNCHANGED <<formed, reconcileVars, passVars, reviewVars, ledgerVars, backendVars,
                   builderVars>>

\* POST /photos/groups/{group_id}/mark-deletion.  rowcount 0: HTTP 404.
mark_group_for_deletion(group_id) ==
    /\ GroupHasRows(group_id)
    /\ photos' = [i \in PhotoIds |->
                     IF HasRow(i) /\ photos[i].group_id = group_id
                     THEN [photos[i] EXCEPT !.is_marked_for_deletion = TRUE]
                     ELSE photos[i]]
    /\ UNCHANGED <<formed, reconcileVars, passVars, reviewVars, ledgerVars, backendVars,
                   builderVars>>

\* POST /photos/groups/{group_id}/unmark-deletion.  rowcount 0: HTTP 404.
unmark_group_for_deletion(group_id) ==
    /\ GroupHasRows(group_id)
    /\ photos' = [i \in PhotoIds |->
                     IF HasRow(i) /\ photos[i].group_id = group_id
                     THEN [photos[i] EXCEPT !.is_marked_for_deletion = FALSE]
                     ELSE photos[i]]
    /\ UNCHANGED <<formed, reconcileVars, passVars, reviewVars, ledgerVars, backendVars,
                   builderVars>>

\* POST /photos/groups/{group_id}/reset-to-ai.  The flag becomes
\* "ai_suggestion_reason IS NOT NULL" on every row of the group.
reset_group_to_ai_suggestions(group_id) ==
    /\ GroupHasRows(group_id)
    /\ photos' = [i \in PhotoIds |->
                     IF HasRow(i) /\ photos[i].group_id = group_id
                     THEN [photos[i] EXCEPT !.is_marked_for_deletion =
                                               (photos[i].ai_suggestion_reason # 0)]
                     ELSE photos[i]]
    /\ UNCHANGED <<formed, reconcileVars, passVars, reviewVars, ledgerVars, backendVars,
                   builderVars>>

\* POST /review/{photo_id}.  No rowcount test: an id without a row is answered
\* with 200 and changes nothing.
review_photo(photo_id, action) ==
    /\ action \in {"approve", "reject"}
    /\ photos' = IF ~HasRow(photo_id) THEN photos
                 ELSE IF action = "approve"
                 THEN [photos EXCEPT ![photo_id].status = "deleted"]
                 ELSE [photos EXCEPT ![photo_id].is_marked_for_deletion = FALSE,
                                     ![photo_id].ai_suggestion_reason = 0]
    /\ ai_suggested' = IF action = "reject" THEN ai_suggested \ {photo_id}
                       ELSE ai_suggested
    /\ UNCHANGED <<formed, reconcileVars, passVars, ledgerVars, backendVars, builderVars>>

\* Photos 1 and 2 clustered into group 1 and not yet suggested or marked; job
\* 1 created from them, uploaded and started (job 1 of the service, pending).
ReviewInit ==
    /\ photos = [i \in PhotoIds |->
                    IF i \in {1, 2} THEN GroupedRow(1, ImageOf(i), 1, 0, FALSE)
                    ELSE NoPhoto]
    /\ formed = <<>>
    /\ batch_jobs = [b \in BatchIds |->
                        IF b = 1
                        THEN [NoJob EXCEPT !.status = "running",
                                           !.total_requests = 1,
                                           !.input_file_name = 1,
                                           !.job_name = 1]
                        ELSE NoJob]
    /\ next_batch = 1
    /\ request_files = {1}
    /\ result_files = {}
    /\ ext_jobs = [h \in ExtHandles |->
                      IF h = 1 THEN [state |-> "JOB_STATE_PENDING", payload |-> <<>>]
                      ELSE NoExtJob]
    /\ last_call = Call("start_batch_processing", 1, OneCall(1, "ok"), 200)
    /\ ai_suggested = {}
    /\ ReconcileIdle
    /\ PassIdle
    /\ BackendIdle
    /\ BuilderIdle

ReviewNext ==
    \/ \E h \in ExtHandles : ext_progress(h)
    \/ \E o \in [BatchIds -> CallOutcomes] : check_batch_status(o)
    \/ \E i \in PhotoIds : mark_photo_for_deletion(i, UserMarked)
    \/ \E i \in PhotoIds : unmark_photo_for_deletion(i)
    \/ \E g \in 1..MaxGroups : mark_group_for_deletion(g)
    \/ \E g \in 1..MaxGroups : unmark_group_for_deletion(g)
    \/ \E g \in 1..MaxGroups : reset_group_to_ai_suggestions(g)
    \/ \E i \in PhotoIds, a \in {"approve", "reject"} : review_photo(i, a)

SpecReview == ReviewInit /\ [][ReviewNext]_vars

\* C31: after reset_group_to_ai_suggestions on a group, a photo of the group
\* is marked for deletion exactly when reconciliation suggested it and the
\* suggestion was not rejected since; and unmarking a photo or a group clears
\* the flag and leaves the stored reason as it was.
C31_ResetRestoresAiSuggestions ==
    [][/\ \A g \in 1..MaxGroups :
             reset_group_to_ai_suggestions(g) =>
                \A i \in PhotoIds :
                   (HasRow(i) /\ photos[i].group_id = g) =>
                      (photos'[i].is_marked_for_deletion <=> i \in ai_suggested')
       /\ \A i \in PhotoIds :
             unmark_photo_for_deletion(i) =>
                /\ ~photos'[i].is_marked_for_deletion
                /\ photos'[i].ai_suggestion_reason = photos[i].ai_suggestion_reason
       /\ \A g \in 1..MaxGroups :
             unmark_group_for_deletion(g) =>
                \A i \in PhotoIds :
                   /\ (HasRow(i) /\ photos[i].group_id = g) =>
                         ~photos'[i].is_marked_for_deletion
                   /\ photos'[i].ai_suggestion_reason = photos[i].ai_suggestion_reason
      ]_vars

\* C34: for every batch job in every reachable state the processed-request
\* count is at most the submitted-request count.
C34_ProcessedAtMostTotal ==
    \A b \in BatchIds :
       batch_jobs[b].processed_requests <= batch_jobs[b].total_requests

\* C33: a succeeded job's results are applied to the photo table at most
\* once: when every stored job is completed and its result file has been
\* downloaded and reconciled, a later status check leaves every photo's
\* suggestion reason and deletion-marked flag as they are.
C33_ResultsAppliedOnce ==
    [][\A o \in [BatchIds -> CallOutcomes] :
          (/\ \A b \in BatchIds :
                 batch_jobs[b].status # "absent" =>
                    /\ batch_jobs[b].status = "completed"
                    /\ b \in result_files
           /\ check_batch_status(o))
             => SuggestionFields(photos') = SuggestionFields(photos)]_vars

(***************************************************************************)
(* SpecBackend: the paid job of backend/main.py.  Its handlers await the   *)
(* database between their statements, so a handler is one action per       *)
(* stretch of code between two awaits, and the stretches of different      *)
(* requests and tasks interleave.  A request that is answered with an      *)
(* HTTP error before it wrote anything leaves the state as it is; the      *)
(* answers of start_processing are kept in the slot of the request, a slot *)
(* that holds an answer being free for the next request.                   *)
(***************************************************************************)
\* if actual_photo_count > photo_count + 100
PhotoCountTolerance == 100

\* len(photo_metadata) - photo_count of a start_processing request: the
\* paid count, the largest count that is tolerated, and one more.
Excesses == {0, PhotoCountTolerance, PhotoCountTolerance + 1}

Rejections == {"rejected_404", "rejected_403", "rejected_400"}

Free(r) == requests[r].pc \in {"idle"} \cup Rejections

\* The tests of start_processing on the row it selected, in their order: the
\* HTTPException raised, or "none".
StartRejection(row, excess) ==
    IF row.status = "absent" THEN "rejected_404"
    ELSE IF ~row.payment_verified THEN "rejected_403"
    ELSE IF excess > PhotoCountTolerance THEN "rejected_400"
    ELSE IF row.status \notin {"uploaded", "failed"} THEN "rejected_400"
    ELSE "none"

\* POST /v1/api/job/{job_id}/upload: the SELECT and the tests on its row.
upload_photo_select(r) ==
    /\ Free(r)
    /\ job.status # "absent"
    /\ job.payment_verified
    /\ job.status \in {"created", "uploaded"}
    /\ requests' = [requests EXCEPT ![r] = [op |-> "upload_photo", pc |-> "save"]]
    /\ UNCHANGED <<job, upload_dir, tasks, clusterVars, reconcileVars, passVars, reviewVars, ledgerVars,
                   builderVars>>

\* content = await file.read(); the file is written to the upload directory.
upload_photo_save(r) ==
    /\ requests[r] = [op |-> "upload_photo", pc |-> "save"]
    /\ upload_dir' = TRUE
    /\ requests' = [requests EXCEPT ![r].pc = "update"]
    /\ UNCHANGED <<job, tasks, clusterVars, reconcileVars, passVars, reviewVars, ledgerVars, builderVars>>

\* UPDATE jobs SET status = 'uploaded'
upload_photo_update(r) ==
    /\ requests[r] = [op |-> "upload_photo", pc |-> "update"]
    /\ job' = [job EXCEPT !.status = "uploaded"]
    /\ requests' = [requests EXCEPT ![r] = IdleRequest]
    /\ UNCHANGED <<upload_dir, tasks, clusterVars, reconcileVars, passVars, reviewVars, ledgerVars,
                   builderVars>>

\* A start_processing without the test on the status.
start_processing_select_any_status(r, excess) ==
    /\ Free(r)
    /\ LET rejection == StartRejection([job EXCEPT !.status =
                                           IF @ = "absent" THEN @ ELSE "uploaded"],
                                       excess)
       IN  requests' = [requests EXCEPT ![r] =
                           [op |-> "start_processing",
                            pc |-> IF rejection = "none" THEN "update" ELSE rejection]]
    /\ UNCHANGED <<job, upload_dir, tasks, clusterVars, reconcileVars, passVars, reviewVars, ledgerVars,
                   builderVars>>

\* POST /v1/api/job/{job_id}: the SELECT and the tests on its row; excess is
\* len(photo_metadata) - photo_count.  A request that fails a test is answered
\* with the HTTP error and goes no further.
start_processing_select(r, excess) ==
    /\ Free(r)
    /\ LET rejection == StartRejection(job, excess)
       IN  requests' = [requests EXCEPT ![r] =
                           [op |-> "start_processing",
                            pc |-> IF rejection = "none" THEN "update" ELSE rejection]]
    /\ UNCHANGED <<job, upload_dir, tasks, clusterVars, reconcileVars, passVars, reviewVars, ledgerVars,
                   builderVars>>

\* UPDATE jobs SET status = 'processing'
start_processing_update(r) ==
    /\ requests[r] = [op |-> "start_processing", pc |-> "update"]
    /\ job' = [job EXCEPT !.status = "processing"]
    /\ requests' = [requests EXCEPT ![r].pc = "create_task"]
    /\ UNCHANGED <<upload_dir, tasks, clusterVars, reconcileVars, passVars, reviewVars, ledgerVars,
                   builderVars>>

\* asyncio.create_task(process_job_with_gemini(...)); t is the new task.
start_processing_create_task(r, t) ==
    /\ requests[r] = [op |-> "start_processing", pc |-> "create_task"]
    /\ tasks[t] = NoTask
    /\ \A u \in TaskIds : u < t => tasks[u] # NoTask
    /\ tasks' = [tasks EXCEPT ![t].pc = "start"]
    /\ requests' = [requests EXCEPT ![r] = IdleRequest]
    /\ UNCHANGED <<job, upload_dir, clusterVars, reconcileVars, passVars, reviewVars, ledgerVars,
                   builderVars>>

\* _parse_results on one line: candidate.get("finishReason"), and the entries
\* of "deletions" are taken as they are.
ParseLineTreatment(line) ==
    CASE line.kind = "empty" -> "skip"
      [] line.kind = "bad_json" -> "skip"
      [] line.kind = "no_response" -> "skip"
      [] line.kind = "empty_candidates" -> "raise"
      [] line.kind = "max_tokens" -> "skip"
      [] OTHER -> "apply"

RECURSIVE ParseResultsFrom(_, _, _)
ParseResultsFrom(lines, k, deletions) ==
    IF k > Len(lines)
    THEN [deletions |-> deletions, raised |-> FALSE]
    ELSE LET t == ParseLineTreatment(lines[k])
         IN  IF t = "raise"
             THEN [deletions |-> deletions, raised |-> TRUE]
             ELSE IF t = "skip"
             THEN ParseResultsFrom(lines, k + 1, deletions)
             ELSE ParseResultsFrom(lines, k + 1, deletions \o lines[k].deletions)

_parse_results(lines) == ParseResultsFrom(lines, 1, <<>>)

\* process_photos up to its first sleep: the request file is written and
\* uploaded, the batch job h is created, and the first poll finds it pending.
\* calls_ok = FALSE: one of the calls raises.
process_photos_submit(t, h, calls_ok) ==
    /\ tasks[t].pc = "start"
    /\ IF calls_ok
       THEN /\ ext_jobs[h].state = "none"
            /\ \A g \in ExtHandles : g < h => ext_jobs[g].state # "none"
            /\ ext_jobs' = [ext_jobs EXCEPT ![h] =
                               [state |-> "JOB_STATE_PENDING", payload |-> <<>>]]
            /\ tasks' = [tasks EXCEPT ![t].pc = "polling", ![t].batch_job = h]
       ELSE /\ h = 1
            /\ tasks' = [tasks EXCEPT ![t].pc = "except"]
            /\ UNCHANGED ext_jobs
    /\ UNCHANGED <<job, upload_dir, requests, clusterVars, reconcileVars, passVars, reviewVars,
                   batch_jobs, next_batch, request_files, result_files, last_call,
                   builderVars>>

\* A poll loop that returns on SUCCEEDED and sleeps on every other state.
_poll_for_completion_until_succeeded(t, outcome) ==
    /\ tasks[t].pc = "polling"
    /\ LET state == ext_jobs[tasks[t].batch_job].state
           parsed == _parse_results(ext_jobs[tasks[t].batch_job].payload)
       IN  /\ outcome = "get_fails" \/ state = "JOB_STATE_SUCCEEDED"
           /\ tasks' = [tasks EXCEPT ![t] =
                 IF outcome = "ok" /\ ~parsed.raised
                 THEN [@ EXCEPT !.pc = "store", !.observed = state,
                                !.results = [deletions |-> parsed.deletions]]
                 ELSE [@ EXCEPT !.pc = "except",
                                !.observed = IF outcome = "get_fails" THEN "none"
                                             ELSE state]]
    /\ UNCHANGED <<job, upload_dir, requests, clusterVars, reconcileVars, passVars, reviewVars, ledgerVars,
                   builderVars>>

\* _poll_for_completion, one poll that ends the loop, and _parse_results
\* after it.  A poll that is answered with any state other than SUCCEEDED,
\* FAILED and CANCELLED sleeps and polls again, which changes nothing.
\* outcome is what the calls to the service do: "ok", "get_fails"
\* (batches.get raises) or "download_fails" (files.download raises).
_poll_for_completion(t, outcome) ==
    /\ tasks[t].pc = "polling"
    /\ LET state == ext_jobs[tasks[t].batch_job].state
           parsed == _parse_results(ext_jobs[tasks[t].batch_job].payload)
       IN  /\ \/ outcome = "get_fails"
              \/ /\ outcome = "ok"
                 /\ state \in {"JOB_STATE_SUCCEEDED", "JOB_STATE_FAILED",
                               "JOB_STATE_CANCELLED"}
              \/ /\ outcome = "download_fails"
                 /\ state = "JOB_STATE_SUCCEEDED"
           /\ tasks' = [tasks EXCEPT ![t] =
                 IF outcome = "ok" /\ state = "JOB_STATE_SUCCEEDED" /\ ~parsed.raised
                 THEN [@ EXCEPT !.pc = "store", !.observed = state,
                                !.results = [deletions |-> parsed.deletions]]
                 ELSE [@ EXCEPT !.pc = "except",
                                !.observed = IF outcome = "get_fails" THEN "none"
                                             ELSE state]]
    /\ UNCHANGED <<job, upload_dir, requests, clusterVars, reconcileVars, passVars, reviewVars, ledgerVars,
                   builderVars>>

\* UPDATE jobs SET status = 'completed', completed_at = ?, results_json = ?
process_job_store_completed(t) ==
    /\ tasks[t].pc = "store"
    /\ job' = [job EXCEPT !.status = "completed", !.completed_at = TRUE,
                          !.results_json = <<tasks[t].results>>]
    /\ tasks' = [tasks EXCEPT ![t].pc = "cleanup"]
    /\ UNCHANGED <<upload_dir, requests, clusterVars, reconcileVars, passVars, reviewVars, ledgerVars,
                   builderVars>>

\* for file in upload_path.glob("*"): file.unlink(), inside the try of the
\* task.  unlink_ok = FALSE: an unlink raises (OSError), which the task's
\* except Exception catches like any failure of the processing.
process_job_cleanup(t, unlink_ok) ==
    /\ tasks[t].pc = "cleanup"
    /\ IF unlink_ok
       THEN /\ upload_dir' = FALSE
            /\ tasks' = [tasks EXCEPT ![t].pc = "done"]
       ELSE /\ UNCHANGED upload_dir
            /\ tasks' = [tasks EXCEPT ![t].pc = "except"]
    /\ UNCHANGED <<job, requests, clusterVars, reconcileVars, passVars, reviewVars, ledgerVars, builderVars>>

\* except Exception: UPDATE jobs SET status = 'failed', completed_at = ?
process_job_store_failed(t) ==
    /\ tasks[t].pc = "except"
    /\ job' = [job EXCEPT !.status = "failed", !.completed_at = TRUE]
    /\ tasks' = [tasks EXCEPT ![t].pc = "done"]
    /\ UNCHANGED <<upload_dir, requests, clusterVars, reconcileVars, passVars, reviewVars, ledgerVars,
                   builderVars>>

\* A job after checkout, its payment verified by the webhook.
BackendInit ==
    /\ job = [NoBackendJob EXCEPT !.status = "created", !.payment_verified = TRUE,
                                  !.charged_photo_count = 1]
    /\ upload_dir = FALSE
    /\ requests = [r \in RequestSlots |-> IdleRequest]
    /\ tasks = [t \in TaskIds |-> NoTask]
    /\ photos = [i \in PhotoIds |-> NoPhoto]
    /\ formed = <<>>
    /\ ReconcileIdle
    /\ LedgerIdle
    /\ PassIdle
    /\ ReviewIdle
    /\ BuilderIdle

BackendNext ==
    \/ \E r \in RequestSlots : upload_photo_select(r)
    \/ \E r \in RequestSlots : upload_photo_save(r)
    \/ \E r \in RequestSlots : upload_photo_update(r)
    \/ \E r \in RequestSlots, e \in Excesses : start_processing_select(r, e)
    \/ \E r \in RequestSlots : start_processing_update(r)
    \/ \E r \in RequestSlots, t \in TaskIds : start_processing_create_task(r, t)
    \/ \E t \in TaskIds, h \in ExtHandles, ok \in BOOLEAN : process_photos_submit(t, h, ok)
    \/ \E t \in TaskIds, o \in CallOutcomes : _poll_for_completion(t, o)
    \/ \E t \in TaskIds : process_job_store_completed(t)
    \/ \E t \in TaskIds, ok \in BOOLEAN : process_job_cleanup(t, ok)
    \/ \E t \in TaskIds : process_job_store_failed(t)
    \/ \E h \in ExtHandles : ext_progress(h)

SpecBackend == BackendInit /\ [][BackendNext]_vars

\* The background task is a running coroutine: a poll loop whose next
\* batches.get would be answered with a state that ends the loop makes that
\* call after its sleep, and the statements after the loop are executed.
SpecBackendLive ==
    /\ SpecBackend
    /\ \A t \in TaskIds :
          /\ WF_vars(_poll_for_completion(t, "ok"))
          /\ WF_vars(process_job_store_completed(t))
          /\ WF_vars(process_job_store_failed(t))

(***************************************************************************)
(* SpecJob: the job of backend/main.py from before its checkout, with      *)
(* payment verification and refunds.                                       *)
(***************************************************************************)
\* POST /v1/api/checkout: INSERT INTO jobs with status 'created' and
\* payment_verified 0.  charged is calculate_pricing's charged photo count:
\* 0 for a free analysis, positive otherwise.
create_checkout(charged) ==
    /\ job.status = "absent"
    /\ job' = [NoBackendJob EXCEPT !.status = "created",
                                   !.charged_photo_count = charged]
    /\ UNCHANGED <<upload_dir, requests, tasks, clusterVars, reconcileVars, passVars,
                   reviewVars, ledgerVars, builderVars>>

\* GET /v1/api/checkout/{checkout_id}/verify for a confirmed checkout: an
\* amount other than the expected one marks the job tampered, the expected
\* amount sets payment_verified.  The amount of a checkout is fixed once it is
\* paid, so every verification of the job sees the same amount: a verified
\* job is not found tampered later (verifying it again rewrites the same
\* values), and a tampered job is not verified later.
verify_payment(amount_ok) ==
    /\ job.status # "absent"
    /\ ~job.payment_verified
    /\ amount_ok => job.status # "tampered"
    /\ job' = IF amount_ok THEN [job EXCEPT !.payment_verified = TRUE]
              ELSE [job EXCEPT !.status = "tampered"]
    /\ UNCHANGED <<upload_dir, requests, tasks, clusterVars, reconcileVars, passVars,
                   reviewVars, ledgerVars, builderVars>>

\* POST /v1/api/job/{job_id}/refund: the SELECT and the tests on its row.  A
\* request that is refused (status processing or completed) or that finds a
\* free analysis is answered at once and writes nothing.
refund_job_select(r) ==
    /\ Free(r)
    /\ job.status # "absent"
    /\ job.status \notin {"processing", "completed"}
    /\ job.charged_photo_count # 0
    /\ requests' = [requests EXCEPT ![r] = [op |-> "refund_job", pc |-> "update"]]
    /\ UNCHANGED <<job, upload_dir, tasks, clusterVars, reconcileVars, passVars, reviewVars,
                   ledgerVars, builderVars>>

\* polar.checkouts.get, then UPDATE jobs SET status = 'refunded',
\* completed_at = ?.  checkout_ok = FALSE: the call raises, HTTP 500.
refund_job_update(r, checkout_ok) ==
    /\ requests[r] = [op |-> "refund_job", pc |-> "update"]
    /\ job' = IF checkout_ok
              THEN [job EXCEPT !.status = "refunded", !.completed_at = TRUE]
              ELSE job
    /\ requests' = [requests EXCEPT ![r] = IdleRequest]
    /\ UNCHANGED <<upload_dir, tasks, clusterVars, reconcileVars, passVars, reviewVars,
                   ledgerVars, builderVars>>

\* No job yet.
JobInit ==
    /\ job = NoBackendJob
    /\ upload_dir = FALSE
    /\ requests = [r \in RequestSlots |-> IdleRequest]
    /\ tasks = [t \in TaskIds |-> NoTask]
    /\ photos = [i \in PhotoIds |-> NoPhoto]
    /\ formed = <<>>
    /\ ReconcileIdle
    /\ LedgerIdle
    /\ PassIdle
    /\ ReviewIdle
    /\ BuilderIdle

JobNext ==
    \/ \E charged \in {0, 1} : create_checkout(charged)
    \/ \E ok \in BOOLEAN : verify_payment(ok)
    \/ \E r \in RequestSlots : refund_job_select(r)
    \/ \E r \in RequestSlots, ok \in BOOLEAN : refund_job_update(r, ok)
    \/ BackendNext

SpecJob == JobInit /\ [][JobNext]_vars

(***************************************************************************)
(* Claims about the job of backend/main.py.                                *)
(***************************************************************************)
ActiveTasks == {t \in TaskIds : tasks[t].pc \notin {"none", "done"}}

\* C4: at no time do two background tasks work on the same job: concurrent
\* start_processing requests start at most one task.
C4_AtMostOneActiveWorker == Cardinality(ActiveTasks) <= 1

\* C9: when the task that polls the job sees the service report failed or
\* cancelled, the status it persists is that same status: failed for
\* failed, cancelled for cancelled.
C9_TerminalStatusPersisted ==
    [][\A t \in TaskIds :
          (tasks[t].pc = "except" /\ tasks'[t].pc = "done") =>
             /\ tasks[t].observed = "JOB_STATE_FAILED" => job'.status = "failed"
             /\ tasks[t].observed = "JOB_STATE_CANCELLED" => job'.status = "cancelled"]_vars

\* The service answers a poll of task t with the given states.
Reports(t, states) ==
    /\ tasks[t].pc = "polling"
    /\ ext_jobs[tasks[t].batch_job].state \in states

\* C26: a task that polls keeps polling as long as the service answers with
\* a state that is not finished (only a raising call takes it out of the
\* loop), and once the service reports succeeded, failed or cancelled the
\* task leaves the loop and the job is persisted as completed or failed.
C26_PollsUntilTerminal ==
    /\ [][\A t \in TaskIds :
             ( /\ Reports(t, {"JOB_STATE_PENDING", "JOB_STATE_RUNNING"})
               /\ ~_poll_for_completion(t, "get_fails") ) =>
                tasks'[t].pc = "polling"]_vars
    /\ \A t \in TaskIds :
          Reports(t, {"JOB_STATE_SUCCEEDED", "JOB_STATE_FAILED",
                      "JOB_STATE_CANCELLED"})
             ~> ( /\ tasks[t].pc \in {"cleanup", "done"}
                  /\ job.status \in {"completed", "failed"} )

\* A task that polled until the service reported SUCCEEDED and stored the
\* job as completed.
C26_Witness ==
    \E t \in TaskIds :
        /\ tasks[t].pc \in {"cleanup", "done"}
        /\ tasks[t].observed = "JOB_STATE_SUCCEEDED"
        /\ job.status = "completed"

\* C35: in every reachable state the job has stored results (results_json
\* non-null) if and only if its status is completed.
C35_ResultsIffCompleted ==
    (job.results_json # <<>>) <=> (job.status = "completed")

\* C36: once the job's status is processing, no upload request changes it
\* back to uploaded: from processing the status changes only to completed or
\* failed.
C36_ProcessingOnlyToTerminal ==
    [][job.status = "processing" =>
          job'.status \in {"processing", "completed", "failed"}]_vars

\* C37: a refund is granted only for a job that is neither processing nor
\* completed, and a job whose status has become refunded never afterwards
\* becomes processing or completed and never receives results, under any
\* interleaving of refund, start-processing and background-task steps.
C37_RefundExcludesProcessing ==
    [][/\ (job'.status = "refunded" /\ job.status # "refunded") =>
             job.status \notin {"processing", "completed"}
       /\ job.status = "refunded" =>
             /\ job'.status \notin {"processing", "completed"}
             /\ job'.results_json = job.results_json]_vars

\* C38: a start_processing request is rejected, leaving the job as it is and
\* starting no background task, whenever the row it selected does not exist,
\* has no verified payment, has a status other than uploaded and failed, or
\* the submitted photo count exceeds the paid count by more than 100; and the
\* job is in status processing only with verified payment.
C38_StartRejected ==
    /\ [][\A r \in RequestSlots, e \in Excesses :
             ( /\ start_processing_select(r, e)
               /\ \/ job.status = "absent"
                  \/ ~job.payment_verified
                  \/ e > PhotoCountTolerance
                  \/ job.status \notin {"uploaded", "failed"} ) =>
                /\ requests'[r].pc \in Rejections
                /\ job' = job
                /\ tasks' = tasks]_vars
    /\ [][\A r \in RequestSlots :
             requests[r].pc \in Rejections =>
                requests'[r].pc \notin {"create_task"} /\
                (requests'[r].op = "start_processing" /\ requests'[r].pc = "update"
                    => /\ job.payment_verified
                       /\ job.status \in {"uploaded", "failed"})]_vars
    /\ [](job.status = "processing" => job.payment_verified)

\* A start_processing request for a job whose payment is not verified was
\* answered with 403: the job is as it was created and no task exists.
C38_Witness ==
    /\ \E r \in RequestSlots :
          requests[r] = [op |-> "start_processing", pc |-> "rejected_403"]
    /\ job.status = "created"
    /\ ~job.payment_verified
    /\ \A t \in TaskIds : tasks[t] = NoTask

====
